---------------------------- MODULE Spec2Model ----------------------------
(***************************************************************************)
(* Model of the Blockza MCP bridge (src/server.py).                        *)
(*                                                                         *)
(* The server is a stateless projection over an upstream REST API.  A      *)
(* state of the model is the observation of one handler invocation: the    *)
(* call and its arguments, the upstream response the GET received, the     *)
(* GET requests the handler issued and the value it returned (or the       *)
(* exception that escaped it).                                             *)
(*                                                                         *)
(* Python and JSON values are tagged records [t |-> tag, v |-> payload]:   *)
(*   null, bool, int, str (a sequence of symbols: text that is sliced,     *)
(*   searched or parsed is spelled one character per symbol, an opaque     *)
(*   literal is a single symbol), list (a sequence of values), dict (a     *)
(*   function from keys to values).                                        *)
(***************************************************************************)
EXTENDS Integers, Sequences, FiniteSets, TLC

VARIABLES pc, call, response, requests, ret

\* Invocations in flight at the same time: the frame (the locals) of each
\* worker running a handler, and what each upstream endpoint answers.
VARIABLES frames, upstream

vars == <<pc, call, response, requests, ret, frames, upstream>>

(***************************************************************************)
(* Bounds of the model.                                                    *)
(***************************************************************************)
MaxRecs == 2
MaxMissing == 2
MaxArgs == 2
NumWorkers == 2

(***************************************************************************)
(* Program constants.                                                      *)
(***************************************************************************)
DescMax == 200
ListCeiling == 20
SearchCeiling == 15
TopExpertsFetch == 100
MemberLookupFetch == 1000
ResourceLimit10 == 10
ResourceLimit20 == 20
ResourceLimit30 == 30

(***************************************************************************)
(* Python / JSON values.                                                   *)
(***************************************************************************)
None == [t |-> "null"]
Str(s) == [t |-> "str", v |-> s]
\* a str whose characters no operation looks into, held as a single symbol
Lit(s) == Str(<<s>>)
Int_(n) == [t |-> "int", v |-> n]
List(s) == [t |-> "list", v |-> s]
Dict(f) == [t |-> "dict", v |-> f]
EmptyDict == Dict([k \in {} |-> None])

IsNone(x) == x.t = "null"
IsStr(x) == x.t = "str"
IsInt(x) == x.t = "int"
IsList(x) == x.t = "list"
IsDict(x) == x.t = "dict"

\* bool(x) in Python
Truthy(x) ==
    CASE x.t = "null" -> FALSE
      [] x.t = "bool" -> x.v
      [] x.t = "int" -> x.v # 0
      [] x.t = "str" -> Len(x.v) > 0
      [] x.t = "list" -> Len(x.v) > 0
      [] x.t = "dict" -> DOMAIN x.v # {}

\* a or b
PyOr(a, b) == IF Truthy(a) THEN a ELSE b

Min(a, b) == IF a <= b THEN a ELSE b
Max(a, b) == IF a >= b THEN a ELSE b

\* s[:n] on a Python sequence: a negative n counts from the end.
PySlice(s, n) ==
    IF n >= 0 THEN SubSeq(s, 1, Min(n, Len(s)))
    ELSE SubSeq(s, 1, Max(Len(s) + n, 0))

\* d.get(k, default) on a Python dict
Get(d, k, default) == IF k \in DOMAIN d THEN d[k] ELSE default

(***************************************************************************)
(* Outcome of evaluating a Python expression or call: a value is returned  *)
(* or an exception propagates.                                             *)
(***************************************************************************)
Return(x) == [kind |-> "return", val |-> x]
Raise(e) == [kind |-> "raise", exc |-> e]
Returned(r) == r.kind = "return"
Raised(r) == r.kind = "raise"

\* requests.exceptions.RequestException and its subclasses.  JSONDecodeError
\* is requests.exceptions.JSONDecodeError, which response.json() raises on a
\* body that is not JSON (requests 2.27 and later).
RequestExceptions == {"ConnectionError", "Timeout", "HTTPError", "JSONDecodeError"}


(***************************************************************************)
(* Field filters (BlockzaClient.filter_*_fields and the projection inside  *)
(* get_companies).  x.get(...) on a value that is not a dict raises        *)
(* AttributeError; x[:200] on a value that is neither str nor list raises  *)
(* TypeError; len(x) on None or a number raises TypeError.                 *)
(***************************************************************************)
EventKeys ==
    {"_id", "title", "description", "location", "country", "city",
     "eventStartDate", "eventEndDate", "category", "website", "company"}

PodcastKeys ==
    {"_id", "title", "description", "shortDescription", "slug", "category",
     "company", "image", "youtubeIframe", "status", "likes", "views",
     "createdAt"}

ExpertKeys ==
    {"_id", "name", "title", "email", "image", "linkedinUrl", "price",
     "bookingMethods", "status", "followers", "responseRate"}

TeamMemberKeys == ExpertKeys \cup {"company", "memberType"}

CompanyKeys ==
    {"_id", "name", "slug", "category", "shortDescription", "logo",
     "website", "founderName", "verificationStatus", "teamSize", "likes",
     "views"}

\* faulty variant: the slice keeps one character too many
TruncateOneMore(x, n) ==
    IF IsStr(x) \/ IsList(x) THEN Return([t |-> x.t, v |-> PySlice(x.v, n + 1)])
    ELSE Raise("TypeError")

\* x[:n] where x is any Python value
Truncate(x, n) ==
    IF IsStr(x) \/ IsList(x) THEN Return([t |-> x.t, v |-> PySlice(x.v, n)])
    ELSE Raise("TypeError")

\* len(x) where x is any Python value
PyLen(x) ==
    IF IsStr(x) \/ IsList(x) THEN Return(Int_(Len(x.v)))
    ELSE IF IsDict(x) THEN Return(Int_(Cardinality(DOMAIN x.v)))
    ELSE Raise("TypeError")

\* faulty variant: the description is cut and then marked as cut
filter_event_fields_marked(event) ==
    IF ~IsDict(event) THEN Raise("AttributeError")
    ELSE LET description == Truncate(Get(event.v, "description", Str(<<>>)), DescMax - 1)
         IN  IF Raised(description) \/ ~IsStr(description.val) THEN Raise("TypeError")
             ELSE Return(Dict([k \in EventKeys |->
                      IF k = "description" THEN Str(description.val.v \o <<"~">>)
                      ELSE Get(event.v, k, None)]))

filter_event_fields(event) ==
    IF ~IsDict(event) THEN Raise("AttributeError")
    ELSE LET description == Truncate(Get(event.v, "description", Str(<<>>)), DescMax)
         IN  IF Raised(description) THEN description
             ELSE Return(Dict([k \in EventKeys |->
                      IF k = "description" THEN description.val
                      ELSE Get(event.v, k, None)]))

\* faulty variant: image.get("url") without the isinstance test
filter_podcast_fields_unguarded(podcast) ==
    IF ~IsDict(podcast) THEN Raise("AttributeError")
    ELSE LET image == Get(podcast.v, "image", EmptyDict)
             description == Truncate(Get(podcast.v, "description", Str(<<>>)), DescMax)
         IN  IF ~IsDict(image) THEN Raise("AttributeError")
             ELSE IF Raised(description) THEN description
             ELSE Return(Dict([k \in PodcastKeys |->
                      CASE k = "_id" ->
                               PyOr(Get(podcast.v, "_id", None), Get(podcast.v, "id", None))
                        [] k = "description" -> description.val
                        [] k = "shortDescription" ->
                               Get(podcast.v, "shortDescription", Str(<<>>))
                        [] k = "image" -> Get(image.v, "url", None)
                        [] k \in {"likes", "views"} -> Get(podcast.v, k, Int_(0))
                        [] OTHER -> Get(podcast.v, k, None)]))

filter_podcast_fields(podcast) ==
    IF ~IsDict(podcast) THEN Raise("AttributeError")
    ELSE LET image == Get(podcast.v, "image", EmptyDict)
             description == Truncate(Get(podcast.v, "description", Str(<<>>)), DescMax)
         IN  IF Raised(description) THEN description
             ELSE Return(Dict([k \in PodcastKeys |->
                      CASE k = "_id" ->
                               PyOr(Get(podcast.v, "_id", None), Get(podcast.v, "id", None))
                        [] k = "description" -> description.val
                        [] k = "shortDescription" ->
                               Get(podcast.v, "shortDescription", Str(<<>>))
                        [] k = "image" ->
                               IF IsDict(image) THEN Get(image.v, "url", None) ELSE None
                        [] k \in {"likes", "views"} -> Get(podcast.v, k, Int_(0))
                        [] OTHER -> Get(podcast.v, k, None)]))

\* faulty variant: the numeric fields are read without their default of 0
filter_expert_fields_no_zero(expert) ==
    IF ~IsDict(expert) THEN Raise("AttributeError")
    ELSE Return(Dict([k \in ExpertKeys |->
             CASE k = "bookingMethods" -> Get(expert.v, k, List(<<>>))
               [] OTHER -> Get(expert.v, k, None)]))

filter_expert_fields(expert) ==
    IF ~IsDict(expert) THEN Raise("AttributeError")
    ELSE Return(Dict([k \in ExpertKeys |->
             CASE k \in {"price", "followers", "responseRate"} -> Get(expert.v, k, Int_(0))
               [] k = "bookingMethods" -> Get(expert.v, k, List(<<>>))
               [] OTHER -> Get(expert.v, k, None)]))

filter_team_member_fields(member, company_name) ==
    IF ~IsDict(member) THEN Raise("AttributeError")
    ELSE Return(Dict([k \in TeamMemberKeys |->
             CASE k \in {"price", "followers", "responseRate"} -> Get(member.v, k, Int_(0))
               [] k = "bookingMethods" -> Get(member.v, k, List(<<>>))
               [] k = "company" -> company_name
               [] k = "memberType" ->
                      Lit("company_team_member")
               [] OTHER -> Get(member.v, k, None)]))

\* the dict literal appended for each company in get_companies
filter_company_fields(company) ==
    IF ~IsDict(company) THEN Raise("AttributeError")
    ELSE LET shortDescription ==
                 Truncate(Get(company.v, "shortDescription", Str(<<>>)), DescMax)
             teamSize == PyLen(Get(company.v, "teamMembers", List(<<>>)))
         IN  IF Raised(shortDescription) THEN shortDescription
             ELSE IF Raised(teamSize) THEN teamSize
             ELSE Return(Dict([k \in CompanyKeys |->
                      CASE k = "shortDescription" -> shortDescription.val
                        [] k = "website" -> Get(company.v, "url", None)
                        [] k = "teamSize" -> teamSize.val
                        [] k \in {"likes", "views"} -> Get(company.v, k, Int_(0))
                        [] OTHER -> Get(company.v, k, None)]))

\* The record a filter's argument refers to once the filter has returned.  A
\* filter only reads its argument (dict.get, slicing, isinstance) and builds
\* a new dict: it assigns to no key of the argument and deletes none.
\* faulty variant: the filter takes _id out of its argument (dict.pop)
RecordAfterPop(record) ==
    IF IsDict(record) THEN Dict([k \in DOMAIN record.v \ {"_id"} |-> record.v[k]])
    ELSE record

RecordAfter(record) == record

\* the filter of the given name applied to a record
ApplyFilter(op, record, company_name) ==
    CASE op = "filter_event_fields" -> filter_event_fields(record)
      [] op = "filter_podcast_fields" -> filter_podcast_fields(record)
      [] op = "filter_expert_fields" -> filter_expert_fields(record)
      [] op = "filter_team_member_fields" -> filter_team_member_fields(record, company_name)
      [] op = "filter_company_fields" -> filter_company_fields(record)

(***************************************************************************)
(* Upstream HTTP.  A response is [outcome, body]: outcome "ok" carries the *)
(* parsed JSON body; ConnectionError and Timeout are raised by             *)
(* requests.get, HTTPError by response.raise_for_status() on a non-2xx     *)
(* status, JSONDecodeError by response.json() on a body that is not JSON.  *)
(* A request is [url, params, timeout].                                    *)
(***************************************************************************)
RequestTimeout == 10

EVENTS_URL == <<"https://api.blockza.io/api/events">>
PODCASTS_URL == <<"https://api.blockza.io/api/podcasts">>
DIRECTORY_URL == <<"https://api.blockza.io/api/directory">>
EXPERTS_URL == <<"https://api.blockza.io/api/experts">>

\* faulty variant: the GET is sent without a timeout
RequestNoTimeout(url, params) == [url |-> url, params |-> params]

Request(url, params) == [url |-> url, params |-> params, timeout |-> RequestTimeout]

\* faulty variant: a body that is not JSON surfaces as a plain ValueError
fetch_json_value_error(resp) ==
    IF resp.outcome = "ok" THEN Return(resp.body)
    ELSE IF resp.outcome = "JSONDecodeError" THEN Raise("ValueError")
    ELSE Raise(resp.outcome)

\* requests.get(...); response.raise_for_status(); response.json()
fetch_json(resp) ==
    IF resp.outcome = "ok" THEN Return(resp.body) ELSE Raise(resp.outcome)

\* faulty variant: only requests.exceptions.ConnectionError is caught
CatchConnectionErrorOnly(r, default) ==
    IF Raised(r) /\ r.exc = "ConnectionError" THEN Return(default) ELSE r

\* except requests.exceptions.RequestException: return default
CatchRequestException(r, default) ==
    IF Raised(r) /\ r.exc \in RequestExceptions THEN Return(default) ELSE r

\* except Exception: return default
CatchException(r, default) == IF Raised(r) THEN Return(default) ELSE r

\* faulty variant: limit and offset are tested for truth like the filters
BuildParamsTruthy(args) ==
    LET sent == {k \in DOMAIN args : Truthy(args[k])}
    IN  [k \in sent |->
            IF k = "upcoming" THEN Lit("true") ELSE args[k]]

\* The query-string dict built by the "if ...: params[k] = v" chains: limit
\* and offset are sent when not None, every other argument when truthy.
BuildParams(args) ==
    LET sent == {k \in DOMAIN args :
                    IF k \in {"limit", "offset"} THEN ~IsNone(args[k])
                    ELSE Truthy(args[k])}
    IN  [k \in sent |->
            IF k = "upcoming" THEN Lit("true") ELSE args[k]]

\* "for x in v": the items visited, or TypeError when v is not iterable
PyIter(x) ==
    IF IsList(x) THEN Return(x.v)
    ELSE IF IsStr(x) THEN Return([i \in 1..Len(x.v) |-> Str(<<x.v[i]>>)])
    ELSE Raise("TypeError")

\* [F(x) for x in items]: the first exception raised ends the comprehension
MapList(F(_), items) ==
    LET rs == [i \in 1..Len(items) |-> F(items[i])]
        bad == {i \in 1..Len(items) : Raised(rs[i])}
    IN  IF bad # {} THEN rs[CHOOSE i \in bad : \A j \in bad : i <= j]
        ELSE Return(List([i \in 1..Len(items) |-> rs[i].val]))

\* data if isinstance(data, list) else []
ListOrEmpty(data) == IF IsList(data) THEN data ELSE List(<<>>)

\* faulty variant: an object body is not looked into
ListOrNothing(data) == IF IsList(data) THEN data ELSE List(<<>>)

\* data if isinstance(data, list) else (data.get("data", []) if isinstance(data, dict) else [])
ListOrData(data) ==
    IF IsList(data) THEN data
    ELSE IF IsDict(data) THEN Get(data.v, "data", List(<<>>))
    ELSE List(<<>>)

\* data.get("data", []) if isinstance(data, dict) else []
DataOrEmpty(data) ==
    IF IsDict(data) THEN Get(data.v, "data", List(<<>>)) ELSE List(<<>>)

\* Filter every record of a fetched collection.
FilterAll(F(_), collection) ==
    LET items == PyIter(collection)
    IN  IF Raised(items) THEN items ELSE MapList(F, items.val)

\* An accessor's outcome: the value returned (or the exception that escapes)
\* and the GET requests issued.
Outcome(r, reqs) == [ret |-> r, reqs |-> reqs]

\* faulty variant: a failed GET is sent once more before giving up
get_events_retry(limit, offset, search, country, city, category, upcoming, resp) ==
    LET params == BuildParams([limit |-> limit, offset |-> offset, search |-> search,
                               country |-> country, city |-> city,
                               category |-> category,
                               upcoming |-> [t |-> "bool", v |-> upcoming]])
        data == fetch_json(resp)
        body == IF Raised(data) THEN data
                ELSE FilterAll(filter_event_fields, ListOrEmpty(data.val))
    IN  Outcome(CatchRequestException(body, List(<<>>)),
                IF Raised(data)
                THEN <<Request(EVENTS_URL, params), Request(EVENTS_URL, params)>>
                ELSE <<Request(EVENTS_URL, params)>>)

get_events(limit, offset, search, country, city, category, upcoming, resp) ==
    LET params == BuildParams([limit |-> limit, offset |-> offset, search |-> search,
                               country |-> country, city |-> city,
                               category |-> category,
                               upcoming |-> [t |-> "bool", v |-> upcoming]])
        data == fetch_json(resp)
        body == IF Raised(data) THEN data
                ELSE FilterAll(filter_event_fields, ListOrEmpty(data.val))
    IN  Outcome(CatchRequestException(body, List(<<>>)), <<Request(EVENTS_URL, params)>>)

get_podcasts(limit, offset, search, category, company, status, resp) ==
    LET params == BuildParams([limit |-> limit, offset |-> offset, search |-> search,
                               category |-> category, company |-> company,
                               status |-> status])
        data == fetch_json(resp)
        body == IF Raised(data) THEN data
                ELSE FilterAll(filter_podcast_fields, ListOrData(data.val))
    IN  Outcome(CatchRequestException(body, List(<<>>)), <<Request(PODCASTS_URL, params)>>)

BlockzaClient_get_podcasts_by_category(category, resp) ==
    get_podcasts(None, None, None, category, None, None, resp)

get_experts(limit, offset, search, resp) ==
    LET params == BuildParams([limit |-> limit, offset |-> offset, search |-> search])
        data == fetch_json(resp)
        body == IF Raised(data) THEN data
                ELSE FilterAll(filter_expert_fields, ListOrData(data.val))
    IN  Outcome(CatchRequestException(body, List(<<>>)), <<Request(EXPERTS_URL, params)>>)

get_companies(limit, search, category, resp) ==
    LET params == BuildParams([limit |-> limit, search |-> search, category |-> category])
        data == fetch_json(resp)
        body == IF Raised(data) THEN data
                ELSE FilterAll(filter_company_fields, DataOrEmpty(data.val))
    IN  Outcome(CatchRequestException(body, List(<<>>)), <<Request(DIRECTORY_URL, params)>>)

(***************************************************************************)
(* Operations on the symbols of a str.                                     *)
(***************************************************************************)
RECURSIVE Flatten(_)
\* the concatenation of a sequence of sequences
Flatten(ss) == IF Len(ss) = 0 THEN <<>> ELSE Head(ss) \o Flatten(Tail(ss))

\* c.lower() for the letters the modelled data uses
LowerChar(c) ==
    CASE c = "A" -> "a" [] c = "B" -> "b" [] c = "C" -> "c" [] c = "D" -> "d"
      [] c = "Z" -> "z" [] OTHER -> c

\* s.lower()
Lower(s) == [i \in 1..Len(s) |-> LowerChar(s[i])]

\* needle in hay
Contains(needle, hay) ==
    \E i \in 0..(Len(hay) - Len(needle)) : SubSeq(hay, i + 1, i + Len(needle)) = needle

\* [G(x) for x in items] with G returning a list per item, concatenated;
\* the first exception raised ends the loop.
FlatMapList(G(_), items) ==
    LET rs == [i \in 1..Len(items) |-> G(items[i])]
        bad == {i \in 1..Len(items) : Raised(rs[i])}
    IN  IF bad # {} THEN rs[CHOOSE i \in bad : \A j \in bad : i <= j]
        ELSE Return(Flatten([i \in 1..Len(items) |-> rs[i].val]))

(***************************************************************************)
(* Team members, flattened out of the directory's companies.               *)
(***************************************************************************)
\* search_lower in filtered.get(k, "").lower(), for k = name, title, email in
\* turn ("or" stops at the first match)
SearchMatches(filtered, search, keys) ==
    LET bad(k) == ~IsStr(Get(filtered.v, k, Str(<<>>)))
        hit(k) == Contains(Lower(search.v), Lower(Get(filtered.v, k, Str(<<>>)).v))
        stop == {i \in 1..Len(keys) : bad(keys[i]) \/ hit(keys[i])}
        first == CHOOSE i \in stop : \A j \in stop : i <= j
    IN  IF stop = {} THEN Return(FALSE)
        ELSE IF bad(keys[first]) THEN Raise("AttributeError")
        ELSE Return(TRUE)

\* the body of "for member in company_data['teamMembers']"
MemberStep(member, company_name, search) ==
    LET filtered == filter_team_member_fields(member, company_name)
        match == SearchMatches(filtered.val, search, <<"name", "title", "email">>)
    IN  IF Raised(filtered) THEN filtered
        ELSE IF ~Truthy(search) THEN Return(<<filtered.val>>)
        ELSE IF Raised(match) THEN match
        ELSE IF match.val THEN Return(<<filtered.val>>)
        ELSE Return(<<>>)

\* the body of "for company_data in companies"
CompanyStep(company_data, search, company) ==
    IF ~IsDict(company_data) THEN Raise("AttributeError")
    ELSE LET company_name == Get(company_data.v, "name", Str(<<>>))
             members == PyIter(company_data.v["teamMembers"])
             step(m) == MemberStep(m, company_name, search)
         IN  IF Truthy(company) /\ ~IsStr(company_name) THEN Raise("AttributeError")
             ELSE IF Truthy(company)
                     /\ ~Contains(Lower(company.v), Lower(company_name.v))
                  THEN Return(<<>>)
             ELSE IF "teamMembers" \notin DOMAIN company_data.v THEN Return(<<>>)
             ELSE IF Raised(members) THEN members
             ELSE FlatMapList(step, members.val)

get_team_members(limit, offset, search, company, category, resp) ==
    LET params == BuildParams([limit |-> limit, search |-> search, category |-> category])
        data == fetch_json(resp)
        companies == PyIter(DataOrEmpty(data.val))
        step(c) == CompanyStep(c, search, company)
        team_members == FlatMapList(step, companies.val)
        body == IF Raised(data) THEN data
                ELSE IF Raised(companies) THEN companies
                ELSE IF Raised(team_members) THEN team_members
                ELSE IF Truthy(limit)
                     THEN Return(List(PySlice(team_members.val, limit.v)))
                ELSE Return(List(team_members.val))
    IN  Outcome(CatchRequestException(body, List(<<>>)), <<Request(DIRECTORY_URL, params)>>)

(***************************************************************************)
(* Lookups by identity.                                                    *)
(***************************************************************************)
NoParams == [k \in {} |-> None]

\* faulty variant: the scan returns the first record without comparing its _id
ScanFirst(items, wanted, or_id) ==
    IF Len(items) = 0 THEN Return(None)
    ELSE IF ~IsDict(items[1]) THEN Raise("AttributeError")
    ELSE Return(items[1])

\* "for x in items: if x.get('_id') == wanted: return x" then "return None",
\* with or_id also comparing x.get('id')
ScanById(items, wanted, or_id) ==
    LET bad(x) == ~IsDict(x)
        hit(x) == \/ Get(x.v, "_id", None) = wanted
                  \/ or_id /\ Get(x.v, "id", None) = wanted
        stop == {i \in 1..Len(items) : bad(items[i]) \/ hit(items[i])}
        first == CHOOSE i \in stop : \A j \in stop : i <= j
    IN  IF stop = {} THEN Return(None)
        ELSE IF bad(items[first]) THEN Raise("AttributeError")
        ELSE Return(items[first])

get_event_by_id(event_id, resp) ==
    LET events == get_events(None, None, None, None, None, None, FALSE, resp)
        found == IF Raised(events.ret) THEN events.ret
                 ELSE ScanById(events.ret.val.v, event_id, FALSE)
    IN  Outcome(CatchException(found, None), events.reqs)

get_podcast_by_id(podcast_id, resp) ==
    LET podcasts == get_podcasts(None, None, None, None, None, None, resp)
        found == IF Raised(podcasts.ret) THEN podcasts.ret
                 ELSE ScanById(podcasts.ret.val.v, podcast_id, TRUE)
    IN  Outcome(CatchException(found, None), podcasts.reqs)

get_expert_by_id(expert_id, resp) ==
    LET data == fetch_json(resp)
        found == IF Raised(data) THEN data
                 ELSE IF Truthy(data.val) THEN filter_expert_fields(data.val)
                 ELSE Return(None)
    IN  Outcome(CatchRequestException(found, None),
                <<Request(EXPERTS_URL \o <<expert_id>>, NoParams)>>)

get_team_member_by_id(member_id, resp) ==
    LET team_members ==
            get_team_members(Int_(MemberLookupFetch), None, None, None, None, resp)
        found == IF Raised(team_members.ret) THEN team_members.ret
                 ELSE ScanById(team_members.ret.val.v, member_id, FALSE)
    IN  Outcome(CatchException(found, None), team_members.reqs)

get_company_by_id(company_id, resp) ==
    LET data == fetch_json(resp)
        companies == PyIter(DataOrEmpty(data.val))
        found == IF Raised(data) THEN data
                 ELSE IF Raised(companies) THEN companies
                 ELSE ScanById(companies.val, company_id, FALSE)
    IN  Outcome(CatchException(found, None), <<Request(DIRECTORY_URL, NoParams)>>)

(***************************************************************************)
(* Upcoming events.  An ISO-8601 timestamp is modelled as one digit, the   *)
(* date and time of day (a later digit is a later instant), followed by    *)
(* nothing (a naive timestamp), by "Z" or by the offset "+00:00".          *)
(* datetime.now() is naive, and Python refuses to order a naive and an     *)
(* aware datetime (TypeError).                                             *)
(***************************************************************************)
Digits == {"1", "2", "3", "4", "5", "6", "7", "8", "9"}

DigitVal(c) ==
    CASE c = "1" -> 1 [] c = "2" -> 2 [] c = "3" -> 3 [] c = "4" -> 4 [] c = "5" -> 5
      [] c = "6" -> 6 [] c = "7" -> 7 [] c = "8" -> 8 [] c = "9" -> 9

UtcOffset == <<"+", "0", "0", ":", "0", "0">>

\* s.replace("Z", "+00:00")
ReplaceZ(s) == Flatten([i \in 1..Len(s) |-> IF s[i] = "Z" THEN UtcOffset ELSE <<s[i]>>])

\* datetime.fromisoformat(s)
fromisoformat(s) ==
    IF Len(s) = 1 /\ s[1] \in Digits
    THEN Return([aware |-> FALSE, at |-> DigitVal(s[1])])
    ELSE IF Len(s) = 1 + Len(UtcOffset) /\ s[1] \in Digits /\ Tail(s) = UtcOffset
    THEN Return([aware |-> TRUE, at |-> DigitVal(s[1])])
    ELSE Raise("ValueError")

\* event_date > now, with now = datetime.now() a naive datetime
LaterThanNow(event_date, now) ==
    IF event_date.aware THEN Raise("TypeError") ELSE Return(event_date.at > now)

\* the try block of the loop: does the event get appended?
UpcomingStep(event, now) ==
    LET start == Get(event.v, "eventStartDate", Str(<<>>))
        event_date == fromisoformat(ReplaceZ(start.v))
        later == LaterThanNow(event_date.val, now)
    IN  IF ~IsStr(start) THEN Raise("AttributeError")
        ELSE IF Raised(event_date) THEN event_date
        ELSE later

\* faulty variant: no try around the loop body, so the first event whose
\* step raises ends the scan in the outer handler
BlockzaClient_get_upcoming_events_one_try(now, resp) ==
    LET events == get_events(None, None, None, None, None, None, FALSE, resp)
        steps(items) == [i \in 1..Len(items) |-> UpcomingStep(items[i], now)]
        kept(items) == Flatten([i \in 1..Len(items) |->
                           IF steps(items)[i].val THEN <<items[i]>> ELSE <<>>])
        upcoming == IF Raised(events.ret) THEN events.ret
                    ELSE IF \E i \in 1..Len(events.ret.val.v) :
                                Raised(steps(events.ret.val.v)[i])
                    THEN Raise("Exception")
                    ELSE Return(List(kept(events.ret.val.v)))
    IN  Outcome(CatchException(upcoming, List(<<>>)), events.reqs)

BlockzaClient_get_upcoming_events(now, resp) ==
    LET events == get_events(None, None, None, None, None, None, FALSE, resp)
        \* a bare "except: pass" skips the event whose step raised
        keep(e) == LET r == UpcomingStep(e, now) IN Returned(r) /\ r.val
        kept(items) == Flatten([i \in 1..Len(items) |->
                           IF keep(items[i]) THEN <<items[i]>> ELSE <<>>])
        upcoming == IF Raised(events.ret) THEN events.ret
                    ELSE Return(List(kept(events.ret.val.v)))
    IN  Outcome(CatchException(upcoming, List(<<>>)), events.reqs)

(***************************************************************************)
(* Tools and resources (the @mcp.tool and @mcp.resource handlers).  Each   *)
(* returns json.dumps(...) of an envelope; an exception that escapes the   *)
(* accessor escapes the handler.                                           *)
(***************************************************************************)
\* json.dumps(doc, indent=2): the JSON text of doc
json_dumps(doc) == [t |-> "json", doc |-> doc]

\* a handler that serialises what it builds from the accessor's value
Respond(acc, build(_)) ==
    IF Raised(acc.ret) THEN acc
    ELSE Outcome(Return(json_dumps(build(acc.ret.val))), acc.reqs)

\* {"<key>": items, "count": len(items)} plus the handler's extra entries
Envelope(key, items, extra) ==
    Dict((key :> items) @@ ("count" :> Int_(Len(items.v))) @@ extra)

\* {"<key>": items[:limit], "count": min(len(items), limit)} plus extras
SlicedEnvelope(key, items, limit, extra) ==
    Dict((key :> List(PySlice(items.v, limit)))
         @@ ("count" :> Int_(Min(Len(items.v), limit))) @@ extra)

NoExtra == [k \in {} |-> None]
ExpertsTag == [source |-> Lit("/api/experts"), type |-> Lit("standalone_experts")]
MembersTag == [source |-> Lit("/api/directory"), type |-> Lit("company_team_members")]
CompaniesTag == [source |-> Lit("/api/directory"), type |-> Lit("companies")]

\* faulty variant: the requested limit is forwarded without the cap
list_events_uncapped(limit, offset, upcoming_only, resp) ==
    LET build(events) == Envelope("events", events, NoExtra)
    IN  Respond(get_events(Int_(limit), Int_(offset), None, None, None, None,
                           upcoming_only, resp), build)

\* ---- event tools
list_events(limit, offset, upcoming_only, resp) ==
    LET capped == Min(limit, ListCeiling)
        build(events) == Envelope("events", events, NoExtra)
    IN  Respond(get_events(Int_(capped), Int_(offset), None, None, None, None,
                           upcoming_only, resp), build)

search_events(query, limit, country, city, resp) ==
    LET capped == Min(limit, SearchCeiling)
        build(events) == Envelope("events", events, NoExtra)
    IN  Respond(get_events(Int_(capped), None, query, country, city, None, FALSE, resp),
                build)

get_upcoming_events(limit, resp) ==
    LET capped == Min(limit, SearchCeiling)
        build(events) == Envelope("events", events, NoExtra)
    IN  Respond(get_events(Int_(capped), None, None, None, None, None, TRUE, resp), build)

search_events_by_location(country, city, limit, resp) ==
    LET capped == Min(limit, SearchCeiling)
        build(events) == Envelope("events", events, NoExtra)
    IN  Respond(get_events(Int_(capped), None, None, country, city, None, FALSE, resp),
                build)

\* ---- podcast tools
list_podcasts(limit, offset, resp) ==
    LET capped == Min(limit, ListCeiling)
        build(podcasts) == Envelope("podcasts", podcasts, NoExtra)
    IN  Respond(get_podcasts(Int_(capped), Int_(offset), None, None, None, None, resp),
                build)

search_podcasts(query, limit, category, company, resp) ==
    LET capped == Min(limit, SearchCeiling)
        build(podcasts) == Envelope("podcasts", podcasts, NoExtra)
    IN  Respond(get_podcasts(Int_(capped), None, query, category, company, None, resp),
                build)

get_podcasts_by_category(category, limit, resp) ==
    LET capped == Min(limit, SearchCeiling)
        build(podcasts) == SlicedEnvelope("podcasts", podcasts, capped, NoExtra)
    IN  Respond(BlockzaClient_get_podcasts_by_category(category, resp), build)

search_podcasts_by_company(company, limit, resp) ==
    LET capped == Min(limit, SearchCeiling)
        build(podcasts) == Envelope("podcasts", podcasts, NoExtra)
    IN  Respond(get_podcasts(Int_(capped), None, None, None, company, None, resp), build)

\* ---- standalone expert tools
list_experts(limit, offset, resp) ==
    LET capped == Min(limit, ListCeiling)
        build(experts) == Envelope("experts", experts, ExpertsTag)
    IN  Respond(get_experts(Int_(capped), Int_(offset), None, resp), build)

search_experts(query, limit, resp) ==
    LET capped == Min(limit, SearchCeiling)
        build(experts) == Envelope("experts", experts, ExpertsTag)
    IN  Respond(get_experts(Int_(capped), None, query, resp), build)

\* sorted(items, key=lambda x: x.get(field, 0), reverse=True): a stable sort;
\* ordering a null key against another key raises TypeError
SortedDesc(items, field) ==
    LET key(i) == Get(items[i].v, field, Int_(0))
        n == Len(items)
        before(j, i) == key(j).v > key(i).v \/ (key(j).v = key(i).v /\ j < i)
        rank(i) == 1 + Cardinality({j \in 1..n : before(j, i)})
    IN  IF n <= 1 THEN Return(items)
        ELSE IF \E i \in 1..n : ~IsInt(key(i)) THEN Raise("TypeError")
        ELSE Return([r \in 1..n |-> items[CHOOSE i \in 1..n : rank(i) = r]])

get_top_experts(limit, sort_by, resp) ==
    LET capped == Min(limit, SearchCeiling)
        experts == get_experts(Int_(TopExpertsFetch), None, None, resp)
        field == IF sort_by = Lit("responseRate") THEN "responseRate"
                 ELSE IF sort_by = Lit("price") THEN "price"
                 ELSE "followers"
        sorted == SortedDesc(experts.ret.val.v, field)
    IN  IF Raised(experts.ret) THEN experts
        ELSE IF Raised(sorted) THEN Outcome(sorted, experts.reqs)
        ELSE Outcome(Return(json_dumps(
                 SlicedEnvelope("experts", List(sorted.val), capped,
                                [sortedBy |-> sort_by] @@ ExpertsTag))),
                 experts.reqs)

\* ---- company team member tools
list_team_members(limit, offset, resp) ==
    LET capped == Min(limit, ListCeiling)
        build(team_members) == Envelope("team_members", team_members, MembersTag)
    IN  Respond(get_team_members(Int_(capped), Int_(offset), None, None, None, resp),
                build)

search_team_members(query, limit, company, category, resp) ==
    LET capped == Min(limit, SearchCeiling)
        build(team_members) ==
            Envelope("team_members", team_members,
                     [filters |-> Dict([search |-> query, company |-> company,
                                        category |-> category])] @@ MembersTag)
    IN  Respond(get_team_members(Int_(capped), None, query, company, category, resp),
                build)

get_team_members_by_company(company, limit, resp) ==
    LET capped == Min(limit, SearchCeiling)
        build(team_members) ==
            Envelope("team_members", team_members, [company |-> company] @@ MembersTag)
    IN  Respond(get_team_members(Int_(capped), None, None, company, None, resp), build)

get_team_members_by_category(category, limit, resp) ==
    LET capped == Min(limit, SearchCeiling)
        build(team_members) ==
            Envelope("team_members", team_members, [category |-> category] @@ MembersTag)
    IN  Respond(get_team_members(Int_(capped), None, None, None, category, resp), build)

\* ---- company tools
list_companies(limit, offset, resp) ==
    LET capped == Min(limit, ListCeiling)
        build(companies) == SlicedEnvelope("companies", companies, capped, NoExtra)
    IN  Respond(get_companies(Int_(capped), None, None, resp), build)

search_companies(query, limit, category, resp) ==
    LET capped == Min(limit, SearchCeiling)
        build(companies) == Envelope("companies", companies, NoExtra)
    IN  Respond(get_companies(Int_(capped), query, category, resp), build)

get_companies_by_category(category, limit, resp) ==
    LET capped == Min(limit, SearchCeiling)
        build(companies) == Envelope("companies", companies, NoExtra)
    IN  Respond(get_companies(Int_(capped), None, category, resp), build)

\* ---- detail tools and by-id resources
\* "if x is None: return json.dumps(not_found)" else "return json.dumps(wrap(x))"
RespondFound(acc, not_found, wrap(_)) ==
    IF Raised(acc.ret) THEN acc
    ELSE IF IsNone(acc.ret.val) THEN Outcome(Return(json_dumps(Dict(not_found))), acc.reqs)
    ELSE Outcome(Return(json_dumps(wrap(acc.ret.val))), acc.reqs)

get_event_details(event_id, resp) ==
    LET wrap(event) == event
    IN  RespondFound(get_event_by_id(event_id, resp),
                     [error |-> Lit("Event not found"), event |-> None], wrap)

resource_event_by_id(event_id, resp) ==
    LET wrap(event) == event
    IN  RespondFound(get_event_by_id(event_id, resp),
                     [error |-> Lit("Event not found")], wrap)

get_podcast_details(podcast_id, resp) ==
    LET wrap(podcast) == podcast
    IN  RespondFound(get_podcast_by_id(podcast_id, resp),
                     [error |-> Lit("Podcast not found"), podcast |-> None], wrap)

resource_podcast_by_id(podcast_id, resp) ==
    LET wrap(podcast) == podcast
    IN  RespondFound(get_podcast_by_id(podcast_id, resp),
                     [error |-> Lit("Podcast not found")], wrap)

get_expert_details(expert_id, resp) ==
    LET wrap(expert) == Dict([expert |-> expert, source |-> Lit("/api/experts"),
                              type |-> Lit("standalone_expert")])
    IN  RespondFound(get_expert_by_id(expert_id, resp),
                     [error |-> Lit("Expert not found"), expert |-> None], wrap)

resource_expert_by_id(expert_id, resp) ==
    LET wrap(expert) == Dict([expert |-> expert, source |-> Lit("/api/experts"),
                              type |-> Lit("standalone_expert")])
    IN  RespondFound(get_expert_by_id(expert_id, resp),
                     [error |-> Lit("Expert not found")], wrap)

get_team_member_details(member_id, resp) ==
    LET wrap(member) == Dict([team_member |-> member, source |-> Lit("/api/directory"),
                              type |-> Lit("company_team_member")])
    IN  RespondFound(get_team_member_by_id(member_id, resp),
                     [error |-> Lit("Team member not found"), member |-> None], wrap)

resource_team_member_by_id(member_id, resp) ==
    LET wrap(member) == Dict([team_member |-> member, source |-> Lit("/api/directory"),
                              type |-> Lit("company_team_member")])
    IN  RespondFound(get_team_member_by_id(member_id, resp),
                     [error |-> Lit("Team member not found")], wrap)

resource_company_by_id(company_id, resp) ==
    LET wrap(company) == Dict([company |-> company, source |-> Lit("/api/directory"),
                               type |-> Lit("company")])
    IN  RespondFound(get_company_by_id(company_id, resp),
                     [error |-> Lit("Company not found")], wrap)

\* ---- list resources
resource_all_experts(resp) ==
    LET build(experts) == Envelope("experts", experts, ExpertsTag)
    IN  Respond(get_experts(Int_(ResourceLimit20), None, None, resp), build)

resource_all_team_members(resp) ==
    LET build(team_members) == Envelope("team_members", team_members, MembersTag)
    IN  Respond(get_team_members(Int_(ResourceLimit20), None, None, None, None, resp),
                build)

resource_team_members_by_company(company, resp) ==
    LET build(team_members) ==
            Envelope("team_members", team_members, [company |-> company] @@ MembersTag)
    IN  Respond(get_team_members(Int_(ResourceLimit30), None, None, company, None, resp),
                build)

resource_team_members_by_category(category, resp) ==
    LET build(team_members) ==
            Envelope("team_members", team_members, [category |-> category] @@ MembersTag)
    IN  Respond(get_team_members(Int_(ResourceLimit30), None, None, None, category, resp),
                build)

resource_all_events(resp) ==
    LET build(events) == Envelope("events", events, NoExtra)
    IN  Respond(get_events(Int_(ResourceLimit10), None, None, None, None, None, FALSE,
                           resp), build)

resource_upcoming_events(resp) ==
    LET build(events) == Envelope("events", events, NoExtra)
    IN  Respond(get_events(Int_(ResourceLimit10), None, None, None, None, None, TRUE,
                           resp), build)

resource_events_by_country(country, resp) ==
    LET build(events) == Envelope("events", events, NoExtra)
    IN  Respond(get_events(Int_(ResourceLimit30), None, None, country, None, None, FALSE,
                           resp), build)

resource_all_podcasts(resp) ==
    LET build(podcasts) == Envelope("podcasts", podcasts, NoExtra)
    IN  Respond(get_podcasts(Int_(ResourceLimit10), None, None, None, None, None, resp),
                build)

resource_podcasts_by_category(category, resp) ==
    LET build(podcasts) == Envelope("podcasts", podcasts, NoExtra)
    IN  Respond(get_podcasts(Int_(ResourceLimit30), None, None, category, None, None,
                             resp), build)

resource_podcasts_by_company(company, resp) ==
    LET build(podcasts) == Envelope("podcasts", podcasts, NoExtra)
    IN  Respond(get_podcasts(Int_(ResourceLimit30), None, None, None, company, None,
                             resp), build)

resource_all_companies(resp) ==
    LET build(companies) == Envelope("companies", companies, CompaniesTag)
    IN  Respond(get_companies(Int_(ResourceLimit20), None, None, resp), build)

resource_companies_by_category(category, resp) ==
    LET build(companies) ==
            Envelope("companies", companies, [category |-> category] @@ CompaniesTag)
    IN  Respond(get_companies(Int_(ResourceLimit30), None, category, resp), build)

(***************************************************************************)
(* Upstream data and caller arguments the model draws from.                *)
(***************************************************************************)
\* a text of n characters, no two neighbours alike
Text(n) == Str([i \in 1..n |-> IF i % 2 = 1 THEN "a" ELSE "b"])

\* a record with only the keys of keep
Restrict(rec, keep) == Dict([k \in (DOMAIN rec.v) \cap keep |-> rec.v[k]])

\* a record with the value under key replaced
With(rec, key, value) == Dict([k \in (DOMAIN rec.v) \cup {key} |->
                                  IF k = key THEN value ELSE rec.v[k]])

FullEvent ==
    Dict([_id |-> Lit("e1"), title |-> Lit("DevCon"), description |-> Text(3),
          location |-> Lit("Hall 1"), country |-> Lit("UAE"), city |-> Lit("Dubai"),
          eventStartDate |-> Str(<<"9">>), eventEndDate |-> Str(<<"9">>),
          category |-> Lit("conference"), website |-> Lit("https://devcon.example"),
          company |-> Lit("Acme"), organizer |-> Lit("internal")])

FullPodcast ==
    Dict([_id |-> Lit("p1"), id |-> Lit("p1"), title |-> Lit("Chain Talk"),
          description |-> Text(3), shortDescription |-> Text(2), slug |-> Lit("chain-talk"),
          category |-> Lit("defi"), company |-> Lit("Acme"),
          image |-> Dict([url |-> Lit("https://img.example/p1"), width |-> Int_(64)]),
          youtubeIframe |-> Lit("<iframe>"), status |-> Lit("published"),
          likes |-> Int_(3), views |-> Int_(8), createdAt |-> Str(<<"2">>),
          transcript |-> Lit("internal")])

FullExpert ==
    Dict([_id |-> Lit("x1"), name |-> Str(<<"A", "d", "a">>), title |-> Str(<<"C", "T", "O">>),
          email |-> Str(<<"a", "@", "x">>), image |-> Lit("https://img.example/x1"),
          linkedinUrl |-> Lit("https://linkedin.example/ada"), price |-> Int_(2),
          bookingMethods |-> List(<<Lit("call")>>), status |-> Lit("active"),
          followers |-> Int_(5), responseRate |-> Int_(9), phone |-> Lit("internal")])

FullMember == With(FullExpert, "_id", Lit("m1"))

FullCompany ==
    Dict([_id |-> Lit("c1"), name |-> Str(<<"A", "c", "m", "e">>), slug |-> Lit("acme"),
          category |-> Lit("defi"), shortDescription |-> Text(3),
          logo |-> Lit("https://img.example/c1"), url |-> Lit("https://acme.example"),
          founderName |-> Lit("Ada"), verificationStatus |-> Lit("verified"),
          teamMembers |-> List(<<FullMember>>), likes |-> Int_(4), views |-> Int_(6),
          revenue |-> Lit("internal")])

\* lengths of the long-text field around the truncation limit
TextLengths == {0, 1, DescMax - 1, DescMax, DescMax + 1, DescMax + 100}

\* Inputs of a filter: the full record with up to MaxMissing of its fields
\* missing or all but up to MaxMissing of them missing, with each field (and
\* all fields) null, and with the long text of every length of TextLengths.
FilterInputs(full, text_key) ==
    {Restrict(full, keep) : keep \in
         {K \in SUBSET (DOMAIN full.v) :
             \/ Cardinality(K) <= MaxMissing
             \/ Cardinality((DOMAIN full.v) \ K) <= MaxMissing}}
        \cup {With(full, k, None) : k \in DOMAIN full.v}
        \cup {Dict([k \in DOMAIN full.v |-> None])}
        \cup {With(full, text_key, Text(n)) : n \in TextLengths}

\* the shapes upstream may give the image of a podcast
ImageShapes ==
    {Lit("cover.png"), None, Int_(3), List(<<Lit("https://img.example/p1")>>), EmptyDict,
     Dict([width |-> Int_(64)]), Dict([url |-> None]),
     Dict([url |-> Lit("https://img.example/p1")])}

\* podcasts with an image of each shape, with and without other fields
ImageInputs ==
    {With(full, "image", image) :
        full \in {FullPodcast, Restrict(FullPodcast, {"_id"}),
                  With(FullPodcast, "description", None)},
        image \in ImageShapes}

\* the records the upstream listings are made of
EventRecs ==
    {With(FullEvent, "description", Text(DescMax + 1)),
     Restrict(With(With(FullEvent, "_id", Lit("e2")), "eventStartDate", Str(<<"9", "Z">>)),
              {"_id", "title", "description", "eventStartDate"}),
     Restrict(With(With(FullEvent, "title", Lit("Other")), "eventStartDate", Str(<<"1">>)),
              {"_id", "title", "eventStartDate"}),
     With(With(With(FullEvent, "_id", Lit("e3")), "description", None),
          "eventStartDate", Str(<<"x">>))}

\* event records for the date scan: those above, and records with a good
\* description whose eventStartDate is missing, null or not a timestamp
DatedEventRecs ==
    EventRecs \cup
    {Restrict(With(FullEvent, "_id", Lit("e4")), {"_id", "title", "description"}),
     With(With(FullEvent, "_id", Lit("e5")), "eventStartDate", None),
     With(With(FullEvent, "_id", Lit("e6")), "eventStartDate", Str(<<"x">>))}

PodcastRecs ==
    {With(FullPodcast, "description", Text(DescMax + 1)),
     Restrict(With(With(FullPodcast, "id", Lit("p2")), "image", Lit("cover.png")),
              {"id", "title", "image"}),
     With(FullPodcast, "id", Lit("p3")),
     Restrict(With(With(With(FullPodcast, "_id", Lit("p4")), "image", None),
                   "description", None),
              {"_id", "title", "description", "image"})}

ExpertRecs ==
    {FullExpert,
     Restrict(With(With(With(FullExpert, "_id", Lit("x2")), "name", Str(<<"B", "o", "b">>)),
                   "followers", Int_(7)),
              {"_id", "name", "followers"}),
     With(With(With(FullExpert, "_id", Lit("x3")), "followers", None), "name", None),
     Restrict(With(FullExpert, "name", Str(<<"D", "a", "n">>)), {"name", "followers"})}

MemberBob ==
    Restrict(With(With(FullMember, "_id", Lit("m2")), "name", Str(<<"B", "o", "b">>)),
             {"_id", "name", "email"})

MemberNoName == With(FullMember, "name", None)

CompanyRecs ==
    {With(With(FullCompany, "shortDescription", Text(DescMax + 1)),
          "teamMembers", List(<<FullMember, MemberBob>>)),
     With(With(With(FullCompany, "_id", Lit("c2")), "name", Str(<<"B", "e", "t", "a">>)),
          "teamMembers", List(<<MemberNoName>>)),
     With(With(With(FullCompany, "name", None), "teamMembers", None),
          "shortDescription", None),
     Restrict(With(With(FullCompany, "_id", Lit("c3")), "name", Str(<<"D", "e", "x">>)),
              {"_id", "name", "slug"})}

\* the finite sequences over S of length at most MaxRecs
Listings(S) == UNION {[1..n -> S] : n \in 0..MaxRecs}

FailureOutcomes == {"ConnectionError", "Timeout", "HTTPError"}

Ok(body) == [outcome |-> "ok", body |-> body]
Failure(outcome) == [outcome |-> outcome, body |-> None]
\* a 2xx answer whose body is not JSON: response.json() raises
InvalidJson == Failure("JSONDecodeError")

\* an upstream that ignores the limit parameter: one record more than the
\* highest ceiling of the tools
Overlong(S) == {[i \in 1..(ListCeiling + 1) |-> r] : r \in S}

\* What a listing endpoint may answer: a failure, a top-level array, a
\* {"data": [...]} object, a listing longer than asked for, or a body of
\* another shape.
ListResponses(S) ==
    {Failure(o) : o \in FailureOutcomes}
        \cup {InvalidJson}
        \cup {Ok(List(l)) : l \in Listings(S)}
        \cup {Ok(Dict([data |-> List(l)])) : l \in Listings(S)}
        \cup {Ok(List(l)) : l \in Overlong(S)}
        \cup {Ok(Dict([data |-> List(l)])) : l \in Overlong(S)}
        \cup {Ok(None), Ok(Int_(7)), Ok(EmptyDict), Ok(Dict([data |-> None])),
              Ok(List(<<Lit("not a record")>>))}

\* What /experts/{id} may answer: a failure, one record, or another shape.
ExpertByIdResponses ==
    {Failure(o) : o \in FailureOutcomes}
        \cup {InvalidJson}
        \cup {Ok(e) : e \in ExpertRecs}
        \cup {Ok(None), Ok(EmptyDict), Ok(Int_(7)), Ok(List(<<FullExpert>>))}

Limits == {-1, 0, 1, 16, 21, 1000}
Offsets == {0, 1}
OptLimits == {None, Int_(-1), Int_(0), Int_(1)}
OptOffsets == {None, Int_(0)}
Queries == {Str(<<>>), Str(<<"a", "d">>), Str(<<"c", "t">>)}
OptQueries == {None} \cup Queries
OptCountries == {None, Lit("UAE")}
OptCities == {None, Lit("Dubai")}
OptCategories == {None, Lit("defi")}
Categories == {Lit("defi")}
OptCompanies == {None, Str(<<"A", "c">>)}
Companies == {Str(<<"A", "c">>), Str(<<"z">>)}
OptStatuses == {None, Lit("published")}
SortKeys == {Lit("followers"), Lit("responseRate"), Lit("price"), Lit("rating")}
EventIds == {Lit("e1"), Lit("e2"), Lit("e9")}
PodcastIds == {Lit("p1"), Lit("p2"), Lit("p3"), Lit("p9")}
ExpertIds == {Lit("x1"), Lit("x9")}
MemberIds == {Lit("m1"), Lit("m2"), Lit("m9")}
CompanyIds == {Lit("c1"), Lit("c2"), Lit("c9")}
\* values of datetime.now()
Nows == {4, 5}

(***************************************************************************)
(* Prompts (the @mcp.prompt handlers).  Each takes no argument and returns *)
(* a list literal of one message; the content, a fixed text, is held by    *)
(* its opening line.                                                       *)
(***************************************************************************)
PromptNames ==
    {"analyze_blockchain_events",
     "upcoming_events_summary",
     "compare_event_locations",
     "analyze_podcast_trends",
     "podcast_recommendations",
     "compare_podcast_creators",
     "find_expert_for_needs",
     "analyze_expert_community",
     "compare_experts",
     "analyze_blockchain_companies",
     "company_partnership_recommendations",
     "compare_blockchain_companies"}

PromptContent(name) ==
    CASE name = "analyze_blockchain_events" ->
             "Please analyze the blockchain events data and provide:"
      [] name = "upcoming_events_summary" ->
             "Please provide a curated summary of upcoming blockchain events including:"
      [] name = "compare_event_locations" ->
             "Please compare blockchain events across different locations:"
      [] name = "analyze_podcast_trends" ->
             "Please analyze the podcast data from the Blockza directory and provide insights covering:"
      [] name = "podcast_recommendations" ->
             "Please provide personalized podcast recommendations including:"
      [] name = "compare_podcast_creators" ->
             "Please analyze and compare podcast creators based on:"
      [] name = "find_expert_for_needs" ->
             "Based on the expert directory data, help me find the right expert for my needs by:"
      [] name = "analyze_expert_community" ->
             "Please analyze the expert community from the Blockza directory and provide insights covering:"
      [] name = "compare_experts" ->
             "Please compare experts from the Blockza directory based on:"
      [] name = "analyze_blockchain_companies" ->
             "Please analyze the blockchain companies from the Blockza directory and provide insights covering:"
      [] name = "company_partnership_recommendations" ->
             "Based on the company directory, help identify partnership opportunities:"
      [] name = "compare_blockchain_companies" ->
             "Please compare blockchain companies from the Blockza directory based on:"

\* faulty variant: a system message is put in front of the user message
get_prompt_with_system(name) ==
    Outcome(Return(List(<<Dict([role |-> Lit("system"), content |-> Lit("Blockza")]),
                          Dict([role |-> Lit("user"),
                                content |-> Lit(PromptContent(name))])>>)),
            <<>>)

\* the prompt of the given name: return [{"role": "user", "content": ...}]
get_prompt(name) ==
    Outcome(Return(List(<<Dict([role |-> Lit("user"),
                                content |-> Lit(PromptContent(name))])>>)),
            <<>>)

(***************************************************************************)
(* The handler or client call registered under a name, applied to its      *)
(* arguments and to the answer its GET receives.                           *)
(***************************************************************************)
Handle(op, args, resp) ==
    CASE op = "BlockzaClient.get_events" ->
             get_events(args.limit, args.offset, args.search, args.country, args.city, args.category, args.upcoming, resp)
      [] op = "BlockzaClient.get_event_by_id" ->
             get_event_by_id(args.event_id, resp)
      [] op = "BlockzaClient.get_podcasts" ->
             get_podcasts(args.limit, args.offset, args.search, args.category, args.company, args.status, resp)
      [] op = "BlockzaClient.get_podcast_by_id" ->
             get_podcast_by_id(args.podcast_id, resp)
      [] op = "BlockzaClient.get_podcasts_by_category" ->
             BlockzaClient_get_podcasts_by_category(args.category, resp)
      [] op = "BlockzaClient.get_upcoming_events" ->
             BlockzaClient_get_upcoming_events(args.now, resp)
      [] op = "BlockzaClient.get_experts" ->
             get_experts(args.limit, args.offset, args.search, resp)
      [] op = "BlockzaClient.get_expert_by_id" ->
             get_expert_by_id(args.expert_id, resp)
      [] op = "BlockzaClient.get_team_members" ->
             get_team_members(args.limit, args.offset, args.search, args.company, args.category, resp)
      [] op = "BlockzaClient.get_team_member_by_id" ->
             get_team_member_by_id(args.member_id, resp)
      [] op = "BlockzaClient.get_companies" ->
             get_companies(args.limit, args.search, args.category, resp)
      [] op = "BlockzaClient.get_company_by_id" ->
             get_company_by_id(args.company_id, resp)
      [] op = "list_events" ->
             list_events(args.limit, args.offset, args.upcoming_only, resp)
      [] op = "search_events" ->
             search_events(args.query, args.limit, args.country, args.city, resp)
      [] op = "get_event_details" ->
             get_event_details(args.event_id, resp)
      [] op = "get_upcoming_events" ->
             get_upcoming_events(args.limit, resp)
      [] op = "search_events_by_location" ->
             search_events_by_location(args.country, args.city, args.limit, resp)
      [] op = "list_podcasts" ->
             list_podcasts(args.limit, args.offset, resp)
      [] op = "search_podcasts" ->
             search_podcasts(args.query, args.limit, args.category, args.company, resp)
      [] op = "get_podcast_details" ->
             get_podcast_details(args.podcast_id, resp)
      [] op = "get_podcasts_by_category" ->
             get_podcasts_by_category(args.category, args.limit, resp)
      [] op = "search_podcasts_by_company" ->
             search_podcasts_by_company(args.company, args.limit, resp)
      [] op = "list_experts" ->
             list_experts(args.limit, args.offset, resp)
      [] op = "search_experts" ->
             search_experts(args.query, args.limit, resp)
      [] op = "get_expert_details" ->
             get_expert_details(args.expert_id, resp)
      [] op = "get_top_experts" ->
             get_top_experts(args.limit, args.sort_by, resp)
      [] op = "list_team_members" ->
             list_team_members(args.limit, args.offset, resp)
      [] op = "search_team_members" ->
             search_team_members(args.query, args.limit, args.company, args.category, resp)
      [] op = "get_team_member_details" ->
             get_team_member_details(args.member_id, resp)
      [] op = "get_team_members_by_company" ->
             get_team_members_by_company(args.company, args.limit, resp)
      [] op = "get_team_members_by_category" ->
             get_team_members_by_category(args.category, args.limit, resp)
      [] op = "list_companies" ->
             list_companies(args.limit, args.offset, resp)
      [] op = "search_companies" ->
             search_companies(args.query, args.limit, args.category, resp)
      [] op = "get_companies_by_category" ->
             get_companies_by_category(args.category, args.limit, resp)
      [] op = "resource_all_experts" ->
             resource_all_experts(resp)
      [] op = "resource_expert_by_id" ->
             resource_expert_by_id(args.expert_id, resp)
      [] op = "resource_all_team_members" ->
             resource_all_team_members(resp)
      [] op = "resource_team_member_by_id" ->
             resource_team_member_by_id(args.member_id, resp)
      [] op = "resource_team_members_by_company" ->
             resource_team_members_by_company(args.company, resp)
      [] op = "resource_team_members_by_category" ->
             resource_team_members_by_category(args.category, resp)
      [] op = "resource_all_events" ->
             resource_all_events(resp)
      [] op = "resource_upcoming_events" ->
             resource_upcoming_events(resp)
      [] op = "resource_event_by_id" ->
             resource_event_by_id(args.event_id, resp)
      [] op = "resource_events_by_country" ->
             resource_events_by_country(args.country, resp)
      [] op = "resource_all_podcasts" ->
             resource_all_podcasts(resp)
      [] op = "resource_podcast_by_id" ->
             resource_podcast_by_id(args.podcast_id, resp)
      [] op = "resource_podcasts_by_category" ->
             resource_podcasts_by_category(args.category, resp)
      [] op = "resource_podcasts_by_company" ->
             resource_podcasts_by_company(args.company, resp)
      [] op = "resource_all_companies" ->
             resource_all_companies(resp)
      [] op = "resource_company_by_id" ->
             resource_company_by_id(args.company_id, resp)
      [] op = "resource_companies_by_category" ->
             resource_companies_by_category(args.category, resp)
      [] op \in PromptNames ->
             get_prompt(op)

(***************************************************************************)
(* The state machine.  The server waits for a request (pc = "idle"); an    *)
(* action runs one handler, accessor or filter to completion on the        *)
(* arguments and the upstream response it draws, and records what it       *)
(* observed (pc = "done"); Dispatch returns to waiting.  Nothing is kept   *)
(* from one call to the next.                                              *)
(***************************************************************************)
\* at most MaxArgs of the optional arguments are given (not None)
Sparse(args) == Cardinality({i \in DOMAIN args : ~IsNone(args[i])}) <= MaxArgs

NoCall == [op |-> "none"]
NoResponse == [outcome |-> "none"]
NoResult == [kind |-> "none"]

\* the workers that run handlers, and a worker running none
Workers == 1..NumWorkers
IdleFrame == [pc |-> "idle"]
NoUpstream == [e \in {} |-> NoResponse]

Init ==
    /\ pc = "idle"
    /\ call = NoCall
    /\ response = NoResponse
    /\ requests = <<>>
    /\ ret = NoResult
    /\ frames = [w \in Workers |-> IdleFrame]
    /\ upstream = NoUpstream

\* one invocation of op on args, with the outcome out of running it
Invoke(op, args, resp, out) ==
    /\ pc' = "done"
    /\ call' = [op |-> op, args |-> args]
    /\ response' = resp
    /\ requests' = out.reqs
    /\ ret' = out.ret
    /\ UNCHANGED <<frames, upstream>>

\* the handler has returned: the server waits for the next request
Dispatch ==
    /\ pc = "done"
    /\ pc' = "idle"
    /\ call' = NoCall
    /\ response' = NoResponse
    /\ requests' = <<>>
    /\ ret' = NoResult
    /\ UNCHANGED <<frames, upstream>>

FilterEvent ==
    /\ pc = "idle"
    /\ \E event \in FilterInputs(FullEvent, "description") :
           Invoke("filter_event_fields", [event |-> event], NoResponse,
                  Outcome(filter_event_fields(event), <<>>))

FilterPodcast ==
    /\ pc = "idle"
    /\ \E podcast \in FilterInputs(FullPodcast, "description") \cup ImageInputs :
           Invoke("filter_podcast_fields", [podcast |-> podcast], NoResponse,
                  Outcome(filter_podcast_fields(podcast), <<>>))

FilterExpert ==
    /\ pc = "idle"
    /\ \E expert \in FilterInputs(FullExpert, "title") :
           Invoke("filter_expert_fields", [expert |-> expert], NoResponse,
                  Outcome(filter_expert_fields(expert), <<>>))

FilterTeamMember ==
    /\ pc = "idle"
    /\ \E member \in FilterInputs(FullMember, "title"),
          company_name \in {Str(<<>>), FullCompany.v.name} :
           Invoke("filter_team_member_fields", [member |-> member, company_name |-> company_name], NoResponse,
                  Outcome(filter_team_member_fields(member, company_name), <<>>))

FilterCompany ==
    /\ pc = "idle"
    /\ \E company \in FilterInputs(FullCompany, "shortDescription") :
           Invoke("filter_company_fields", [company |-> company], NoResponse,
                  Outcome(filter_company_fields(company), <<>>))

\* the filters and the records each is given
FilterDomain(op) ==
    CASE op = "filter_event_fields" -> FilterInputs(FullEvent, "description")
      [] op = "filter_podcast_fields" -> FilterInputs(FullPodcast, "description")
      [] op = "filter_expert_fields" -> FilterInputs(FullExpert, "title")
      [] op = "filter_team_member_fields" -> FilterInputs(FullMember, "title")
      [] op = "filter_company_fields" -> FilterInputs(FullCompany, "shortDescription")

\* A caller applies a filter to a raw record, applies it again to the same
\* record, and applies it to the output of the first call.
FilterTwice ==
    /\ pc = "idle"
    /\ \E op \in {"filter_event_fields", "filter_podcast_fields", "filter_expert_fields",
                   "filter_team_member_fields", "filter_company_fields"} :
         \E record \in FilterDomain(op), company_name \in {Str(<<>>), FullCompany.v.name} :
           LET first == ApplyFilter(op, record, company_name)
               after == RecordAfter(record)
               second == ApplyFilter(op, after, company_name)
               again == IF Returned(first) THEN ApplyFilter(op, first.val, company_name)
                        ELSE first
           IN  /\ op # "filter_team_member_fields" => company_name = Str(<<>>)
               /\ Invoke("filter twice",
                         [filter |-> op, record |-> record, company_name |-> company_name],
                         NoResponse,
                         Outcome([kind |-> "twice", first |-> first, second |-> second,
                                  again |-> again, record |-> RecordAfter(after)], <<>>))

GetEvents ==
    /\ pc = "idle"
    /\ \E limit \in OptLimits, offset \in OptOffsets, search \in OptQueries,
          country \in OptCountries, city \in OptCities, category \in OptCategories,
          upcoming \in BOOLEAN, resp \in ListResponses(EventRecs) :
           /\ Sparse(<<limit, offset, search, country, city, category>>)
           /\ Invoke("BlockzaClient.get_events", [limit |-> limit, offset |-> offset, search |-> search, country |-> country, city |-> city, category |-> category, upcoming |-> upcoming], resp,
                  get_events(limit, offset, search, country, city, category, upcoming, resp))

GetEventById ==
    /\ pc = "idle"
    /\ \E event_id \in EventIds, resp \in ListResponses(EventRecs) :
           Invoke("BlockzaClient.get_event_by_id", [event_id |-> event_id], resp,
                  get_event_by_id(event_id, resp))

GetPodcasts ==
    /\ pc = "idle"
    /\ \E limit \in OptLimits, offset \in OptOffsets, search \in OptQueries,
          category \in OptCategories, company \in OptCompanies, status \in OptStatuses,
          resp \in ListResponses(PodcastRecs) :
           /\ Sparse(<<limit, offset, search, category, company, status>>)
           /\ Invoke("BlockzaClient.get_podcasts", [limit |-> limit, offset |-> offset, search |-> search, category |-> category, company |-> company, status |-> status], resp,
                  get_podcasts(limit, offset, search, category, company, status, resp))

GetPodcastById ==
    /\ pc = "idle"
    /\ \E podcast_id \in PodcastIds, resp \in ListResponses(PodcastRecs) :
           Invoke("BlockzaClient.get_podcast_by_id", [podcast_id |-> podcast_id], resp,
                  get_podcast_by_id(podcast_id, resp))

ClientGetPodcastsByCategory ==
    /\ pc = "idle"
    /\ \E category \in Categories, resp \in ListResponses(PodcastRecs) :
           Invoke("BlockzaClient.get_podcasts_by_category", [category |-> category], resp,
                  BlockzaClient_get_podcasts_by_category(category, resp))

ClientGetUpcomingEvents ==
    /\ pc = "idle"
    /\ \E now \in Nows, resp \in ListResponses(DatedEventRecs) :
           Invoke("BlockzaClient.get_upcoming_events", [now |-> now], resp,
                  BlockzaClient_get_upcoming_events(now, resp))

GetExperts ==
    /\ pc = "idle"
    /\ \E limit \in OptLimits, offset \in OptOffsets, search \in OptQueries,
          resp \in ListResponses(ExpertRecs) :
           Invoke("BlockzaClient.get_experts", [limit |-> limit, offset |-> offset, search |-> search], resp,
                  get_experts(limit, offset, search, resp))

GetExpertById ==
    /\ pc = "idle"
    /\ \E expert_id \in ExpertIds, resp \in ExpertByIdResponses :
           Invoke("BlockzaClient.get_expert_by_id", [expert_id |-> expert_id], resp,
                  get_expert_by_id(expert_id, resp))

GetTeamMembers ==
    /\ pc = "idle"
    /\ \E limit \in OptLimits, offset \in OptOffsets, search \in OptQueries,
          company \in OptCompanies, category \in OptCategories,
          resp \in ListResponses(CompanyRecs) :
           /\ Sparse(<<limit, offset, search, company, category>>)
           /\ Invoke("BlockzaClient.get_team_members", [limit |-> limit, offset |-> offset, search |-> search, company |-> company, category |-> category], resp,
                  get_team_members(limit, offset, search, company, category, resp))

GetTeamMemberById ==
    /\ pc = "idle"
    /\ \E member_id \in MemberIds, resp \in ListResponses(CompanyRecs) :
           Invoke("BlockzaClient.get_team_member_by_id", [member_id |-> member_id], resp,
                  get_team_member_by_id(member_id, resp))

GetCompanies ==
    /\ pc = "idle"
    /\ \E limit \in OptLimits, search \in OptQueries, category \in OptCategories,
          resp \in ListResponses(CompanyRecs) :
           Invoke("BlockzaClient.get_companies", [limit |-> limit, search |-> search, category |-> category], resp,
                  get_companies(limit, search, category, resp))

GetCompanyById ==
    /\ pc = "idle"
    /\ \E company_id \in CompanyIds, resp \in ListResponses(CompanyRecs) :
           Invoke("BlockzaClient.get_company_by_id", [company_id |-> company_id], resp,
                  get_company_by_id(company_id, resp))

ListEvents ==
    /\ pc = "idle"
    /\ \E limit \in Limits, offset \in Offsets, upcoming_only \in BOOLEAN,
          resp \in ListResponses(EventRecs) :
           Invoke("list_events", [limit |-> limit, offset |-> offset, upcoming_only |-> upcoming_only], resp,
                  list_events(limit, offset, upcoming_only, resp))

SearchEvents ==
    /\ pc = "idle"
    /\ \E query \in Queries, limit \in Limits, country \in OptCountries,
          city \in OptCities, resp \in ListResponses(EventRecs) :
           Invoke("search_events", [query |-> query, limit |-> limit, country |-> country, city |-> city], resp,
                  search_events(query, limit, country, city, resp))

GetEventDetails ==
    /\ pc = "idle"
    /\ \E event_id \in EventIds, resp \in ListResponses(EventRecs) :
           Invoke("get_event_details", [event_id |-> event_id], resp,
                  get_event_details(event_id, resp))

GetUpcomingEvents ==
    /\ pc = "idle"
    /\ \E limit \in Limits, resp \in ListResponses(EventRecs) :
           Invoke("get_upcoming_events", [limit |-> limit], resp,
                  get_upcoming_events(limit, resp))

SearchEventsByLocation ==
    /\ pc = "idle"
    /\ \E country \in OptCountries, city \in OptCities, limit \in Limits,
          resp \in ListResponses(EventRecs) :
           Invoke("search_events_by_location", [country |-> country, city |-> city, limit |-> limit], resp,
                  search_events_by_location(country, city, limit, resp))

ListPodcasts ==
    /\ pc = "idle"
    /\ \E limit \in Limits, offset \in Offsets, resp \in ListResponses(PodcastRecs) :
           Invoke("list_podcasts", [limit |-> limit, offset |-> offset], resp,
                  list_podcasts(limit, offset, resp))

SearchPodcasts ==
    /\ pc = "idle"
    /\ \E query \in Queries, limit \in Limits, category \in OptCategories,
          company \in OptCompanies, resp \in ListResponses(PodcastRecs) :
           Invoke("search_podcasts", [query |-> query, limit |-> limit, category |-> category, company |-> company], resp,
                  search_podcasts(query, limit, category, company, resp))

GetPodcastDetails ==
    /\ pc = "idle"
    /\ \E podcast_id \in PodcastIds, resp \in ListResponses(PodcastRecs) :
           Invoke("get_podcast_details", [podcast_id |-> podcast_id], resp,
                  get_podcast_details(podcast_id, resp))

GetPodcastsByCategory ==
    /\ pc = "idle"
    /\ \E category \in Categories, limit \in Limits, resp \in ListResponses(PodcastRecs) :
           Invoke("get_podcasts_by_category", [category |-> category, limit |-> limit], resp,
                  get_podcasts_by_category(category, limit, resp))

SearchPodcastsByCompany ==
    /\ pc = "idle"
    /\ \E company \in Companies, limit \in Limits, resp \in ListResponses(PodcastRecs) :
           Invoke("search_podcasts_by_company", [company |-> company, limit |-> limit], resp,
                  search_podcasts_by_company(company, limit, resp))

ListExperts ==
    /\ pc = "idle"
    /\ \E limit \in Limits, offset \in Offsets, resp \in ListResponses(ExpertRecs) :
           Invoke("list_experts", [limit |-> limit, offset |-> offset], resp,
                  list_experts(limit, offset, resp))

SearchExperts ==
    /\ pc = "idle"
    /\ \E query \in Queries, limit \in Limits, resp \in ListResponses(ExpertRecs) :
           Invoke("search_experts", [query |-> query, limit |-> limit], resp,
                  search_experts(query, limit, resp))

GetExpertDetails ==
    /\ pc = "idle"
    /\ \E expert_id \in ExpertIds, resp \in ExpertByIdResponses :
           Invoke("get_expert_details", [expert_id |-> expert_id], resp,
                  get_expert_details(expert_id, resp))

GetTopExperts ==
    /\ pc = "idle"
    /\ \E limit \in Limits, sort_by \in SortKeys, resp \in ListResponses(ExpertRecs) :
           Invoke("get_top_experts", [limit |-> limit, sort_by |-> sort_by], resp,
                  get_top_experts(limit, sort_by, resp))

ListTeamMembers ==
    /\ pc = "idle"
    /\ \E limit \in Limits, offset \in Offsets, resp \in ListResponses(CompanyRecs) :
           Invoke("list_team_members", [limit |-> limit, offset |-> offset], resp,
                  list_team_members(limit, offset, resp))

SearchTeamMembers ==
    /\ pc = "idle"
    /\ \E query \in Queries, limit \in Limits, company \in OptCompanies,
          category \in OptCategories, resp \in ListResponses(CompanyRecs) :
           Invoke("search_team_members", [query |-> query, limit |-> limit, company |-> company, category |-> category], resp,
                  search_team_members(query, limit, company, category, resp))

GetTeamMemberDetails ==
    /\ pc = "idle"
    /\ \E member_id \in MemberIds, resp \in ListResponses(CompanyRecs) :
           Invoke("get_team_member_details", [member_id |-> member_id], resp,
                  get_team_member_details(member_id, resp))

GetTeamMembersByCompany ==
    /\ pc = "idle"
    /\ \E company \in Companies, limit \in Limits, resp \in ListResponses(CompanyRecs) :
           Invoke("get_team_members_by_company", [company |-> company, limit |-> limit], resp,
                  get_team_members_by_company(company, limit, resp))

GetTeamMembersByCategory ==
    /\ pc = "idle"
    /\ \E category \in Categories, limit \in Limits, resp \in ListResponses(CompanyRecs) :
           Invoke("get_team_members_by_category", [category |-> category, limit |-> limit], resp,
                  get_team_members_by_category(category, limit, resp))

ListCompanies ==
    /\ pc = "idle"
    /\ \E limit \in Limits, offset \in Offsets, resp \in ListResponses(CompanyRecs) :
           Invoke("list_companies", [limit |-> limit, offset |-> offset], resp,
                  list_companies(limit, offset, resp))

SearchCompanies ==
    /\ pc = "idle"
    /\ \E query \in Queries, limit \in Limits, category \in OptCategories,
          resp \in ListResponses(CompanyRecs) :
           Invoke("search_companies", [query |-> query, limit |-> limit, category |-> category], resp,
                  search_companies(query, limit, category, resp))

GetCompaniesByCategory ==
    /\ pc = "idle"
    /\ \E category \in Categories, limit \in Limits, resp \in ListResponses(CompanyRecs) :
           Invoke("get_companies_by_category", [category |-> category, limit |-> limit], resp,
                  get_companies_by_category(category, limit, resp))

ResourceAllExperts ==
    /\ pc = "idle"
    /\ \E resp \in ListResponses(ExpertRecs) :
           Invoke("resource_all_experts", NoExtra, resp,
                  resource_all_experts(resp))

ResourceExpertById ==
    /\ pc = "idle"
    /\ \E expert_id \in ExpertIds, resp \in ExpertByIdResponses :
           Invoke("resource_expert_by_id", [expert_id |-> expert_id], resp,
                  resource_expert_by_id(expert_id, resp))

ResourceAllTeamMembers ==
    /\ pc = "idle"
    /\ \E resp \in ListResponses(CompanyRecs) :
           Invoke("resource_all_team_members", NoExtra, resp,
                  resource_all_team_members(resp))

ResourceTeamMemberById ==
    /\ pc = "idle"
    /\ \E member_id \in MemberIds, resp \in ListResponses(CompanyRecs) :
           Invoke("resource_team_member_by_id", [member_id |-> member_id], resp,
                  resource_team_member_by_id(member_id, resp))

ResourceTeamMembersByCompany ==
    /\ pc = "idle"
    /\ \E company \in Companies, resp \in ListResponses(CompanyRecs) :
           Invoke("resource_team_members_by_company", [company |-> company], resp,
                  resource_team_members_by_company(company, resp))

ResourceTeamMembersByCategory ==
    /\ pc = "idle"
    /\ \E category \in Categories, resp \in ListResponses(CompanyRecs) :
           Invoke("resource_team_members_by_category", [category |-> category], resp,
                  resource_team_members_by_category(category, resp))

ResourceAllEvents ==
    /\ pc = "idle"
    /\ \E resp \in ListResponses(EventRecs) :
           Invoke("resource_all_events", NoExtra, resp,
                  resource_all_events(resp))

ResourceUpcomingEvents ==
    /\ pc = "idle"
    /\ \E resp \in ListResponses(EventRecs) :
           Invoke("resource_upcoming_events", NoExtra, resp,
                  resource_upcoming_events(resp))

ResourceEventById ==
    /\ pc = "idle"
    /\ \E event_id \in EventIds, resp \in ListResponses(EventRecs) :
           Invoke("resource_event_by_id", [event_id |-> event_id], resp,
                  resource_event_by_id(event_id, resp))

ResourceEventsByCountry ==
    /\ pc = "idle"
    /\ \E country \in {Lit("UAE")}, resp \in ListResponses(EventRecs) :
           Invoke("resource_events_by_country", [country |-> country], resp,
                  resource_events_by_country(country, resp))

ResourceAllPodcasts ==
    /\ pc = "idle"
    /\ \E resp \in ListResponses(PodcastRecs) :
           Invoke("resource_all_podcasts", NoExtra, resp,
                  resource_all_podcasts(resp))

ResourcePodcastById ==
    /\ pc = "idle"
    /\ \E podcast_id \in PodcastIds, resp \in ListResponses(PodcastRecs) :
           Invoke("resource_podcast_by_id", [podcast_id |-> podcast_id], resp,
                  resource_podcast_by_id(podcast_id, resp))

ResourcePodcastsByCategory ==
    /\ pc = "idle"
    /\ \E category \in Categories, resp \in ListResponses(PodcastRecs) :
           Invoke("resource_podcasts_by_category", [category |-> category], resp,
                  resource_podcasts_by_category(category, resp))

ResourcePodcastsByCompany ==
    /\ pc = "idle"
    /\ \E company \in Companies, resp \in ListResponses(PodcastRecs) :
           Invoke("resource_podcasts_by_company", [company |-> company], resp,
                  resource_podcasts_by_company(company, resp))

ResourceAllCompanies ==
    /\ pc = "idle"
    /\ \E resp \in ListResponses(CompanyRecs) :
           Invoke("resource_all_companies", NoExtra, resp,
                  resource_all_companies(resp))

ResourceCompanyById ==
    /\ pc = "idle"
    /\ \E company_id \in CompanyIds, resp \in ListResponses(CompanyRecs) :
           Invoke("resource_company_by_id", [company_id |-> company_id], resp,
                  resource_company_by_id(company_id, resp))

ResourceCompaniesByCategory ==
    /\ pc = "idle"
    /\ \E category \in Categories, resp \in ListResponses(CompanyRecs) :
           Invoke("resource_companies_by_category", [category |-> category], resp,
                  resource_companies_by_category(category, resp))

\* prompts/get: a prompt is asked for, upstream being in any condition
GetPrompt ==
    /\ pc = "idle"
    /\ \E name \in PromptNames,
          resp \in {Failure(o) : o \in FailureOutcomes} \cup {InvalidJson}
                     \cup {Ok(List(l)) : l \in Listings(EventRecs)} :
           Invoke(name, NoExtra, resp, get_prompt(name))

Next ==
    \/ FilterEvent
    \/ FilterPodcast
    \/ FilterExpert
    \/ FilterTeamMember
    \/ FilterCompany
    \/ FilterTwice
    \/ GetPrompt
    \/ GetEvents
    \/ GetEventById
    \/ GetPodcasts
    \/ GetPodcastById
    \/ ClientGetPodcastsByCategory
    \/ ClientGetUpcomingEvents
    \/ GetExperts
    \/ GetExpertById
    \/ GetTeamMembers
    \/ GetTeamMemberById
    \/ GetCompanies
    \/ GetCompanyById
    \/ ListEvents
    \/ SearchEvents
    \/ GetEventDetails
    \/ GetUpcomingEvents
    \/ SearchEventsByLocation
    \/ ListPodcasts
    \/ SearchPodcasts
    \/ GetPodcastDetails
    \/ GetPodcastsByCategory
    \/ SearchPodcastsByCompany
    \/ ListExperts
    \/ SearchExperts
    \/ GetExpertDetails
    \/ GetTopExperts
    \/ ListTeamMembers
    \/ SearchTeamMembers
    \/ GetTeamMemberDetails
    \/ GetTeamMembersByCompany
    \/ GetTeamMembersByCategory
    \/ ListCompanies
    \/ SearchCompanies
    \/ GetCompaniesByCategory
    \/ ResourceAllExperts
    \/ ResourceExpertById
    \/ ResourceAllTeamMembers
    \/ ResourceTeamMemberById
    \/ ResourceTeamMembersByCompany
    \/ ResourceTeamMembersByCategory
    \/ ResourceAllEvents
    \/ ResourceUpcomingEvents
    \/ ResourceEventById
    \/ ResourceEventsByCountry
    \/ ResourceAllPodcasts
    \/ ResourcePodcastById
    \/ ResourcePodcastsByCategory
    \/ ResourcePodcastsByCompany
    \/ ResourceAllCompanies
    \/ ResourceCompanyById
    \/ ResourceCompaniesByCategory
    \/ Dispatch

Spec == Init /\ [][Next]_vars

(***************************************************************************)
(* Invocations in flight at the same time (the HTTP transport serves       *)
(* several clients).  Each worker runs one handler at a time in a frame of *)
(* its own: the call, the GET it sent, the answer the GET received, the    *)
(* result.  The module keeps nothing else: BlockzaClient has only constant *)
(* class attributes and static methods, and every requests.get opens a     *)
(* connection of its own.  An endpoint either answers every GET with the   *)
(* same body or never answers; a GET sent with a timeout gives up on an    *)
(* endpoint that never answers.                                            *)
(***************************************************************************)
\* an endpoint that never answers
Silent == [outcome |-> "silent", body |-> None]

Endpoints == {EVENTS_URL[1], EXPERTS_URL[1], DIRECTORY_URL[1]}

\* what an endpoint answers when it answers
AnswerOf(endpoint) ==
    CASE endpoint = EVENTS_URL[1] ->
             Ok(List(<<FullEvent, With(FullEvent, "_id", Lit("e2"))>>))
      [] endpoint = EXPERTS_URL[1] ->
             Ok(List(<<FullExpert, With(With(FullExpert, "_id", Lit("x2")),
                                        "followers", Int_(7))>>))
      [] endpoint = DIRECTORY_URL[1] ->
             Ok(Dict([data |-> List(<<FullCompany>>)]))

\* the conditions upstream can be in: any set of its endpoints is silent
Worlds ==
    {[e \in Endpoints |-> IF e \in quiet THEN Silent ELSE AnswerOf(e)] :
        quiet \in SUBSET Endpoints}

\* the invocations the workers draw from
ConcurrentCalls ==
    {[op |-> "list_events", args |-> [limit |-> 21, offset |-> 0, upcoming_only |-> FALSE]],
     [op |-> "get_event_details", args |-> [event_id |-> Lit("e2")]],
     [op |-> "list_experts", args |-> [limit |-> 1, offset |-> 0]],
     [op |-> "get_top_experts", args |-> [limit |-> 5, sort_by |-> Lit("followers")]],
     [op |-> "list_companies", args |-> [limit |-> 1, offset |-> 0]],
     [op |-> "resource_team_member_by_id", args |-> [member_id |-> Lit("m1")]],
     [op |-> "resource_company_by_id", args |-> [company_id |-> Lit("c1")]]}

\* the handler of an invocation, run on what its GET receives
Run(c, resp) ==
    CASE c.op = "list_events" ->
             list_events(c.args.limit, c.args.offset, c.args.upcoming_only, resp)
      [] c.op = "get_event_details" ->
             get_event_details(c.args.event_id, resp)
      [] c.op = "list_experts" ->
             list_experts(c.args.limit, c.args.offset, resp)
      [] c.op = "get_top_experts" ->
             get_top_experts(c.args.limit, c.args.sort_by, resp)
      [] c.op = "list_companies" ->
             list_companies(c.args.limit, c.args.offset, resp)
      [] c.op = "resource_team_member_by_id" ->
             resource_team_member_by_id(c.args.member_id, resp)
      [] c.op = "resource_company_by_id" ->
             resource_company_by_id(c.args.company_id, resp)

\* what a GET can receive: the answer of an endpoint, or the Timeout
Receivable == {AnswerOf(e) : e \in Endpoints} \cup {Failure("Timeout")}

\* A handler reads its arguments and the response of its GET and nothing
\* else: the GET it sends and the result it returns, per invocation and
\* response.
Handled == [c \in ConcurrentCalls |-> [resp \in Receivable |-> Run(c, resp)]]

\* the GET a handler sends: it is built from the arguments alone
RequestOf(c) == Handled[c][Failure("Timeout")].reqs[1]

\* the endpoint a GET goes to
EndpointOf(request) == request.url[1]

ConcurrentInit ==
    /\ pc = "idle"
    /\ call = NoCall
    /\ response = NoResponse
    /\ requests = <<>>
    /\ ret = NoResult
    /\ frames = [w \in Workers |-> IdleFrame]
    /\ upstream \in Worlds

\* worker w is handed an invocation and runs it up to its requests.get
Start(w) ==
    /\ frames[w].pc = "idle"
    /\ \E c \in ConcurrentCalls :
           frames' = [frames EXCEPT ![w] = [pc |-> "sent", call |-> c,
                                            request |-> RequestOf(c)]]
    /\ UNCHANGED <<pc, call, response, requests, ret, upstream>>

\* faulty variant: the answer is left in a slot every waiting invocation reads
DeliverShared(fr, w, resp) ==
    [v \in DOMAIN fr |->
        IF fr[v].pc = "sent"
        THEN [pc |-> "received", call |-> fr[v].call, request |-> fr[v].request,
              response |-> resp]
        ELSE fr[v]]

\* requests.get returns (or raises) in the frame that called it
Deliver(fr, w, resp) ==
    [fr EXCEPT ![w] = [pc |-> "received", call |-> fr[w].call,
                       request |-> fr[w].request, response |-> resp]]

\* the endpoint answers the GET of worker w
Answer(w) ==
    /\ frames[w].pc = "sent"
    /\ upstream[EndpointOf(frames[w].request)] # Silent
    /\ frames' = Deliver(frames, w, upstream[EndpointOf(frames[w].request)])
    /\ UNCHANGED <<pc, call, response, requests, ret, upstream>>

\* the endpoint stays silent and the timeout of the GET expires:
\* requests.get raises requests.exceptions.Timeout
TimeoutFires(w) ==
    /\ frames[w].pc = "sent"
    /\ upstream[EndpointOf(frames[w].request)] = Silent
    /\ "timeout" \in DOMAIN frames[w].request
    /\ frames' = Deliver(frames, w, Failure("Timeout"))
    /\ UNCHANGED <<pc, call, response, requests, ret, upstream>>

\* the rest of the handler runs on what the GET received, and returns
Complete(w) ==
    /\ frames[w].pc = "received"
    /\ frames' = [frames EXCEPT ![w] =
                     [pc |-> "done", call |-> frames[w].call,
                      request |-> frames[w].request, response |-> frames[w].response,
                      ret |-> Handled[frames[w].call][frames[w].response].ret]]
    /\ UNCHANGED <<pc, call, response, requests, ret, upstream>>

\* the result is sent to the client; the worker is free again
Finish(w) ==
    /\ frames[w].pc = "done"
    /\ frames' = [frames EXCEPT ![w] = IdleFrame]
    /\ UNCHANGED <<pc, call, response, requests, ret, upstream>>

ConcurrentNext ==
    \E w \in Workers :
        \/ Start(w)
        \/ Answer(w)
        \/ TimeoutFires(w)
        \/ Complete(w)
        \/ Finish(w)

\* A GET sent with timeout=10 returns or raises, and the code after it is
\* straight-line or loops over a finite list: a started handler keeps going.
ConcurrentSpec ==
    /\ ConcurrentInit
    /\ [][ConcurrentNext]_vars
    /\ \A w \in Workers :
           WF_vars(Answer(w)) /\ WF_vars(TimeoutFires(w)) /\ WF_vars(Complete(w))

(***************************************************************************)
(* Vocabulary of the properties.                                           *)
(***************************************************************************)
ListAccessorOps ==
    {"BlockzaClient.get_events", "BlockzaClient.get_podcasts",
     "BlockzaClient.get_experts", "BlockzaClient.get_team_members",
     "BlockzaClient.get_companies"}

ByIdOps ==
    {"BlockzaClient.get_event_by_id", "BlockzaClient.get_podcast_by_id",
     "BlockzaClient.get_expert_by_id", "BlockzaClient.get_team_member_by_id",
     "BlockzaClient.get_company_by_id"}

\* tools whose docstring declares "max: 20"
Ceiling20Ops ==
    {"list_events", "list_podcasts", "list_experts", "list_team_members",
     "list_companies"}

\* tools whose docstring declares "max: 15"
Ceiling15Ops ==
    {"search_events", "get_upcoming_events", "search_events_by_location",
     "search_podcasts", "get_podcasts_by_category", "search_podcasts_by_company",
     "search_experts", "get_top_experts", "search_team_members",
     "get_team_members_by_company", "get_team_members_by_category",
     "search_companies", "get_companies_by_category"}

ListToolOps == Ceiling20Ops \cup Ceiling15Ops

ListResourceOps ==
    {"resource_all_experts", "resource_all_team_members",
     "resource_team_members_by_company", "resource_team_members_by_category",
     "resource_all_events", "resource_upcoming_events", "resource_events_by_country",
     "resource_all_podcasts", "resource_podcasts_by_category",
     "resource_podcasts_by_company", "resource_all_companies",
     "resource_companies_by_category"}

CeilingOf(op) == IF op \in Ceiling20Ops THEN 20 ELSE 15

EntityKeys == {"events", "podcasts", "experts", "team_members", "companies"}

\* the entity list of an envelope
Entities(doc) == doc.v[CHOOSE k \in EntityKeys \cap DOMAIN doc.v : TRUE]

\* a list handler has returned its envelope
ListHandlerDone == pc = "done" /\ call.op \in ListToolOps \cup ListResourceOps

FilterOps ==
    {"filter_event_fields", "filter_podcast_fields", "filter_expert_fields",
     "filter_team_member_fields", "filter_company_fields"}

\* the raw record a filter call was given
RawArg ==
    CASE call.op = "filter_event_fields" -> call.args.event
      [] call.op = "filter_podcast_fields" -> call.args.podcast
      [] call.op = "filter_expert_fields" -> call.args.expert
      [] call.op = "filter_team_member_fields" -> call.args.member
      [] call.op = "filter_company_fields" -> call.args.company

\* the fixed key set of each entity type (spec section 3)
KeysOf(op) ==
    CASE op = "filter_event_fields" ->
             {"_id", "title", "description", "location", "country", "city",
              "eventStartDate", "eventEndDate", "category", "website", "company"}
      [] op = "filter_podcast_fields" ->
             {"_id", "title", "description", "shortDescription", "slug", "category",
              "company", "image", "youtubeIframe", "status", "likes", "views",
              "createdAt"}
      [] op = "filter_expert_fields" ->
             {"_id", "name", "title", "email", "image", "linkedinUrl", "price",
              "bookingMethods", "status", "followers", "responseRate"}
      [] op = "filter_team_member_fields" ->
             {"_id", "name", "title", "email", "image", "linkedinUrl", "price",
              "bookingMethods", "status", "followers", "responseRate", "company",
              "memberType"}
      [] op = "filter_company_fields" ->
             {"_id", "name", "slug", "category", "shortDescription", "logo",
              "website", "founderName", "verificationStatus", "teamSize", "likes",
              "views"}

\* the upstream fields an output key is taken from
SourceFields(op, k) ==
    CASE op = "filter_podcast_fields" /\ k = "_id" -> {"_id", "id"}
      [] op = "filter_company_fields" /\ k = "website" -> {"url"}
      [] op = "filter_company_fields" /\ k = "teamSize" -> {"teamMembers"}
      [] op = "filter_team_member_fields" /\ k \in {"company", "memberType"} -> {}
      [] OTHER -> {k}

\* the documented default of an output key: None, "", 0 or []
DocumentedDefault(k) ==
    CASE k \in {"description", "shortDescription"} -> Str(<<>>)
      [] k \in {"likes", "views", "price", "followers", "responseRate", "teamSize"} ->
             Int_(0)
      [] k = "bookingMethods" -> List(<<>>)
      [] OTHER -> None

\* the well-typed record each filter's inputs are cut from
FullOf(op) ==
    CASE op = "filter_event_fields" -> FullEvent
      [] op = "filter_podcast_fields" -> FullPodcast
      [] op = "filter_expert_fields" -> FullExpert
      [] op = "filter_team_member_fields" -> FullMember
      [] op = "filter_company_fields" -> FullCompany

\* every field present in raw has the JSON type upstream gives it
WellTyped(raw, op) == \A k \in DOMAIN raw.v : raw.v[k].t = FullOf(op).v[k].t

(***************************************************************************)
(* C1.  When the upstream GET fails (connection error, timeout, non-2xx    *)
(* status) a list accessor returns [] and a by-id lookup returns None; no  *)
(* exception propagates.                                                   *)
(***************************************************************************)
C1_FailedGetYieldsEmpty ==
    (pc = "done" /\ response.outcome \in FailureOutcomes) =>
        /\ call.op \in ListAccessorOps => ret = Return(List(<<>>))
        /\ call.op \in ByIdOps => ret = Return(None)

C1_Witness ==
    /\ pc = "done"
    /\ call.op = "BlockzaClient.get_team_members"
    /\ response.outcome = "Timeout"
    /\ ret = Return(List(<<>>))

(***************************************************************************)
(* C2 (as claimed).  When the upstream GET raises a connection error every *)
(* list tool and list resource returns an envelope with an empty entity    *)
(* list and count 0.                                                       *)
(***************************************************************************)
C2_ConnectionErrorEnvelope ==
    (ListHandlerDone /\ response.outcome = "ConnectionError") =>
        /\ Returned(ret)
        /\ Entities(ret.val.doc) = List(<<>>)
        /\ ret.val.doc.v["count"] = Int_(0)

(***************************************************************************)
(* C3 (as claimed).  For every tool declaring a ceiling C and every        *)
(* requested limit in 1..1000 above C, the GET carries limit <= C.         *)
(***************************************************************************)
OverCeiling ==
    /\ pc = "done"
    /\ call.op \in ListToolOps
    /\ call.args.limit \in 1..1000
    /\ call.args.limit > CeilingOf(call.op)

LimitSentWithin(c) ==
    /\ Len(requests) >= 1
    /\ \A i \in 1..Len(requests) :
          /\ "limit" \in DOMAIN requests[i].params
          /\ IsInt(requests[i].params["limit"])
          /\ requests[i].params["limit"].v <= c

C3_UpstreamLimitClamped == OverCeiling => LimitSentWithin(CeilingOf(call.op))

(***************************************************************************)
(* C3 (amended).  The same, for every tool declaring a ceiling except      *)
(* get_podcasts_by_category and get_top_experts; get_podcasts_by_category  *)
(* sends its GET without a limit parameter and get_top_experts sends       *)
(* limit = 100.                                                            *)
(***************************************************************************)
C3_UpstreamLimitClampedExceptClientSideCut ==
    OverCeiling =>
        CASE call.op = "get_podcasts_by_category" ->
                 /\ Len(requests) = 1
                 /\ "limit" \notin DOMAIN requests[1].params
          [] call.op = "get_top_experts" ->
                 /\ Len(requests) = 1
                 /\ requests[1].params["limit"] = Int_(100)
          [] OTHER -> LimitSentWithin(CeilingOf(call.op))

C3_Witness ==
    /\ pc = "done"
    /\ call.op = "list_events"
    /\ call.args.limit = 1000
    /\ requests[1].params["limit"] = Int_(20)

(***************************************************************************)
(* C4 (as claimed).  In every envelope a list tool or list resource        *)
(* returns, count equals the number of entities in the returned list.      *)
(***************************************************************************)
C4_CountMatchesEntities ==
    (ListHandlerDone /\ Returned(ret)) =>
        ret.val.doc.v["count"] = Int_(Len(Entities(ret.val.doc).v))

(***************************************************************************)
(* C5.  Given a well-typed raw record with any of its fields missing, a    *)
(* filter does not raise, its output has exactly the fixed key set of the  *)
(* entity, and a key whose upstream field is missing holds its documented  *)
(* default.                                                                *)
(***************************************************************************)
C5_MissingFieldsDefaulted ==
    (pc = "done" /\ call.op \in FilterOps /\ WellTyped(RawArg, call.op)) =>
        /\ Returned(ret)
        /\ IsDict(ret.val)
        /\ DOMAIN ret.val.v = KeysOf(call.op)
        /\ \A k \in KeysOf(call.op) :
              (SourceFields(call.op, k) # {}
               /\ SourceFields(call.op, k) \cap DOMAIN RawArg.v = {})
                  => ret.val.v[k] = DocumentedDefault(k)

C5_Witness ==
    /\ pc = "done"
    /\ call.op = "filter_company_fields"
    /\ DOMAIN RawArg.v = {"_id", "name"}
    /\ Returned(ret)
    /\ ret.val.v["teamSize"] = Int_(0)
    /\ ret.val.v["shortDescription"] = Str(<<>>)

(***************************************************************************)
(* C6 (as claimed).  The filters are total: for every raw record, fields   *)
(* holding JSON null included, a filter returns a mapping with the fixed   *)
(* key set and never raises.                                               *)
(***************************************************************************)
C6_FiltersTotalOnNulls ==
    (pc = "done" /\ call.op \in FilterOps) =>
        /\ Returned(ret)
        /\ DOMAIN ret.val.v = KeysOf(call.op)

(***************************************************************************)
(* C7.  In the output of the event, podcast and company filters the long   *)
(* text (description, description, shortDescription) is the first          *)
(* min(200, length) characters of the input text.                          *)
(***************************************************************************)
TextFieldOf(op) ==
    CASE op = "filter_event_fields" -> "description"
      [] op = "filter_podcast_fields" -> "description"
      [] op = "filter_company_fields" -> "shortDescription"

\* a filter with a long-text field was given a text and produced its output
TextFiltered ==
    /\ pc = "done"
    /\ call.op \in {"filter_event_fields", "filter_podcast_fields",
                    "filter_company_fields"}
    /\ TextFieldOf(call.op) \in DOMAIN RawArg.v
    /\ IsStr(RawArg.v[TextFieldOf(call.op)])
    /\ Returned(ret)

C7_LongTextTruncated ==
    TextFiltered =>
        LET input == RawArg.v[TextFieldOf(call.op)]
            output == ret.val.v[TextFieldOf(call.op)]
        IN  /\ IsStr(output)
            /\ Len(output.v) <= 200
            /\ Len(output.v) = Min(200, Len(input.v))
            /\ \A i \in 1..Len(output.v) : output.v[i] = input.v[i]
            /\ Len(input.v) <= 200 => output = input

C7_Witness ==
    /\ TextFiltered
    /\ call.op = "filter_podcast_fields"
    /\ Len(RawArg.v["description"].v) = 300
    /\ Len(ret.val.v["description"].v) = 200

(***************************************************************************)
(* C8 (as claimed).  When the events endpoint answers a JSON array of n    *)
(* event records, list_events returns an envelope of exactly n filtered    *)
(* records in upstream order, each with the upstream _id and title and a   *)
(* description of at most 200 characters, and count = n.                   *)
(***************************************************************************)
\* the body is a JSON array of records (objects)
ArrayOfRecords(body) == IsList(body) /\ \A i \in 1..Len(body.v) : IsDict(body.v[i])

C8_ListEventsMapsEveryRecord ==
    (pc = "done" /\ call.op = "list_events" /\ response.outcome = "ok"
     /\ ArrayOfRecords(response.body)) =>
        /\ Returned(ret)
        /\ LET events == ret.val.doc.v["events"].v
               raw == response.body.v
           IN  /\ Len(events) = Len(raw)
               /\ ret.val.doc.v["count"] = Int_(Len(raw))
               /\ \A i \in 1..Len(raw) :
                     /\ events[i].v["_id"] = Get(raw[i].v, "_id", None)
                     /\ events[i].v["title"] = Get(raw[i].v, "title", None)
                     /\ IsStr(events[i].v["description"])
                     /\ Len(events[i].v["description"].v) <= 200

(***************************************************************************)
(* C9.  Lookups by identity.                                               *)
(***************************************************************************)
\* the id a by-id lookup was asked for
Wanted ==
    CASE call.op = "BlockzaClient.get_event_by_id" -> call.args.event_id
      [] call.op = "BlockzaClient.get_podcast_by_id" -> call.args.podcast_id
      [] call.op = "BlockzaClient.get_expert_by_id" -> call.args.expert_id
      [] call.op = "BlockzaClient.get_team_member_by_id" -> call.args.member_id
      [] call.op = "BlockzaClient.get_company_by_id" -> call.args.company_id

\* the records (objects) held by a JSON array
RecordsIn(x) == IF IsList(x) THEN {x.v[i] : i \in {j \in 1..Len(x.v) : IsDict(x.v[j])}}
                ELSE {}

\* the value under "data" of a JSON object
DataOf(body) == IF IsDict(body) /\ "data" \in DOMAIN body.v THEN body.v["data"] ELSE None

\* the records upstream answered a by-id lookup with
UpstreamRecords ==
    IF response.outcome # "ok" THEN {}
    ELSE CASE call.op = "BlockzaClient.get_event_by_id" -> RecordsIn(response.body)
           [] call.op = "BlockzaClient.get_podcast_by_id" ->
                  RecordsIn(response.body) \cup RecordsIn(DataOf(response.body))
           [] call.op = "BlockzaClient.get_expert_by_id" ->
                  IF IsDict(response.body) THEN {response.body} ELSE {}
           [] call.op = "BlockzaClient.get_team_member_by_id" ->
                  UNION {RecordsIn(Get(c.v, "teamMembers", None)) :
                            c \in RecordsIn(DataOf(response.body))}
           [] call.op = "BlockzaClient.get_company_by_id" ->
                  RecordsIn(DataOf(response.body))

\* the identity fields of a record: _id, and id as well for a podcast
IdentitiesOf(rec) ==
    {Get(rec.v, "_id", None)}
        \cup IF call.op = "BlockzaClient.get_podcast_by_id"
             THEN {Get(rec.v, "id", None)} ELSE {}

NoRecordMatches == \A rec \in UpstreamRecords : Wanted \notin IdentitiesOf(rec)

ByIdDone == pc = "done" /\ call.op \in ByIdOps

\* what the claim asks of a lookup
LookupRespectsIdentity ==
    /\ NoRecordMatches => ret = Return(None)
    /\ (Returned(ret) /\ ~IsNone(ret.val)) => Get(ret.val.v, "_id", None) = Wanted

(***************************************************************************)
(* C9 (as claimed).  Every by-id lookup returns None when no upstream      *)
(* record has the requested identity; any record it returns has the        *)
(* requested identity.  For the expert endpoint, which answers one record, *)
(* stated for answers that are JSON objects.                               *)
(***************************************************************************)
C9_EveryLookupRespectsIdentity ==
    (ByIdDone /\ ((call.op = "BlockzaClient.get_expert_by_id"
                     /\ response.outcome = "ok") => IsDict(response.body))) =>
        LookupRespectsIdentity

(***************************************************************************)
(* C9 (amended).  The same for the lookups that scan a fetched listing     *)
(* (event, podcast, team member, company).  get_expert_by_id compares no   *)
(* identity: it returns the projection of whatever JSON object             *)
(* /experts/{id} answered, and None when the answer is empty.              *)
(***************************************************************************)
C9_ScanningLookupsRespectIdentity ==
    ByIdDone =>
        IF call.op # "BlockzaClient.get_expert_by_id" THEN LookupRespectsIdentity
        ELSE (response.outcome = "ok" /\ IsDict(response.body)) =>
                 IF response.body = EmptyDict THEN ret = Return(None)
                 ELSE /\ Returned(ret)
                      /\ ret.val.v["_id"] = Get(response.body.v, "_id", None)

C9_Witness ==
    /\ ByIdDone
    /\ call.op = "BlockzaClient.get_event_by_id"
    /\ Cardinality(UpstreamRecords) >= 2
    /\ NoRecordMatches
    /\ ret = Return(None)

(***************************************************************************)
(* C10 (as claimed).  BlockzaClient.get_upcoming_events, for a fixed now:  *)
(* every fetched event whose eventStartDate is a valid ISO-8601 timestamp  *)
(* later than now, a trailing Z included, is in the result, and every      *)
(* event whose timestamp is earlier than now is not.                       *)
(***************************************************************************)
\* the forms of a valid timestamp: naive, with a trailing Z, with +00:00
ValidIso(x) ==
    /\ IsStr(x)
    /\ Len(x.v) >= 1
    /\ x.v[1] \in Digits
    /\ Tail(x.v) \in {<<>>, <<"Z">>, UtcOffset}

\* the instant a valid timestamp denotes
InstantOf(x) == DigitVal(x.v[1])

\* the events listing was fetched: every record passes the event filter
EventsFetched ==
    /\ response.outcome = "ok"
    /\ ArrayOfRecords(response.body)
    /\ \A i \in 1..Len(response.body.v) :
          IsStr(Get(response.body.v[i].v, "description", Str(<<>>)))

C10_FutureIncludedPastExcluded ==
    (pc = "done" /\ call.op = "BlockzaClient.get_upcoming_events" /\ EventsFetched) =>
        /\ Returned(ret)
        /\ \A i \in 1..Len(response.body.v) :
              LET event == filter_event_fields(response.body.v[i]).val
                  start == event.v["eventStartDate"]
                  included == \E j \in 1..Len(ret.val.v) : ret.val.v[j] = event
              IN  ValidIso(start) =>
                      /\ InstantOf(start) > call.args.now => included
                      /\ InstantOf(start) < call.args.now => ~included

(***************************************************************************)
(* C11.  BlockzaClient.get_upcoming_events leaves out, without raising,    *)
(* every event whose eventStartDate is missing, null or not an ISO-8601    *)
(* timestamp, and goes on with the rest of the listing: the result is the  *)
(* one obtained from the listing with those events removed.                *)
(***************************************************************************)
\* the event's eventStartDate is missing, null or not a timestamp
Unparsable(event) == ~ValidIso(Get(event.v, "eventStartDate", None))

UpcomingScanned ==
    /\ pc = "done"
    /\ call.op = "BlockzaClient.get_upcoming_events"
    /\ EventsFetched

C11_UnparsableDateSkipped ==
    UpcomingScanned =>
        LET parsable == SelectSeq(response.body.v, LAMBDA e : ~Unparsable(e))
            alone == BlockzaClient_get_upcoming_events(call.args.now, Ok(List(parsable)))
        IN  /\ Returned(ret)
            /\ IsList(ret.val)
            /\ \A j \in 1..Len(ret.val.v) : ~Unparsable(ret.val.v[j])
            /\ ret = alone.ret

\* an event without a start date is followed by a future event, which is kept
C11_Witness ==
    /\ UpcomingScanned
    /\ Len(response.body.v) = 2
    /\ "eventStartDate" \notin DOMAIN response.body.v[1].v
    /\ ~Unparsable(response.body.v[2])
    /\ Returned(ret)
    /\ Len(ret.val.v) = 1
    /\ ret.val.v[1]["v"]["_id"] = response.body.v[2].v["_id"]

(***************************************************************************)
(* C12.  The two shapes of an upstream body: a top-level array of records  *)
(* and an object {"data": [records]}.                                      *)
(***************************************************************************)
\* the body is a non-empty array of records, or an object holding one
EitherShape(body) ==
    \/ ArrayOfRecords(body) /\ Len(body.v) > 0
    \/ /\ IsDict(body)
       /\ DOMAIN body.v = {"data"}
       /\ ArrayOfRecords(body.v["data"])
       /\ Len(body.v["data"].v) > 0

\* the records a body of either shape carries
BodyRecords(body) == IF IsList(body) THEN body.v ELSE body.v["data"].v

\* the same records in the other shape
OtherShape(body) == IF IsList(body) THEN Dict([data |-> body]) ELSE body.v["data"]

\* a list accessor was answered with records in one of the two shapes, and
\* returned a list
ListFetched ==
    /\ pc = "done"
    /\ call.op \in ListAccessorOps
    /\ response.outcome = "ok"
    /\ EitherShape(response.body)
    /\ Returned(ret)

\* what the accessor returns for the same records in the other shape
OtherShapeResult == Handle(call.op, call.args, Ok(OtherShape(response.body))).ret

\* the members of the companies of a directory listing, in order
MembersIn(companies) ==
    Flatten([i \in 1..Len(companies) |->
                IF IsList(Get(companies[i].v, "teamMembers", None))
                THEN companies[i].v["teamMembers"].v ELSE <<>>])

(***************************************************************************)
(* C12 (as claimed).  Every list accessor returns the same non-empty list  *)
(* of filtered records for a top-level array and for {"data": [...]}.      *)
(***************************************************************************)
C12_EveryAccessorAcceptsBothShapes ==
    (ListFetched /\ Returned(OtherShapeResult)) =>
        /\ ret = OtherShapeResult
        /\ call.op # "BlockzaClient.get_team_members" =>
               Len(ret.val.v) = Len(BodyRecords(response.body))

(***************************************************************************)
(* C12 (amended).  get_podcasts and get_experts return the same list, one  *)
(* filtered record per upstream record, for both shapes.  get_events reads *)
(* only a top-level array and returns [] for an object; get_companies and  *)
(* get_team_members read only the "data" of an object and return [] for a  *)
(* top-level array.                                                        *)
(***************************************************************************)
C12_ShapesAcceptedPerAccessor ==
    ListFetched =>
        LET n == Len(BodyRecords(response.body))
            array == IsList(response.body)
        IN  CASE call.op \in {"BlockzaClient.get_podcasts", "BlockzaClient.get_experts"} ->
                     /\ ret = OtherShapeResult
                     /\ Len(ret.val.v) = n
              [] call.op = "BlockzaClient.get_events" ->
                     IF array THEN Len(ret.val.v) = n ELSE ret.val = List(<<>>)
              [] call.op = "BlockzaClient.get_companies" ->
                     IF array THEN ret.val = List(<<>>) ELSE Len(ret.val.v) = n
              [] call.op = "BlockzaClient.get_team_members" ->
                     IF array THEN ret.val = List(<<>>)
                     ELSE (\A k \in DOMAIN call.args : IsNone(call.args[k])) =>
                              Len(ret.val.v) = Len(MembersIn(BodyRecords(response.body)))

\* get_experts answered with two records under "data"
C12_Witness ==
    /\ ListFetched
    /\ call.op = "BlockzaClient.get_experts"
    /\ IsDict(response.body)
    /\ Len(response.body.v["data"].v) = 2
    /\ Len(ret.val.v) = 2
    /\ ret = OtherShapeResult

(***************************************************************************)
(* C13.  Every filter is pure: two calls on the same raw record give equal *)
(* outcomes, and the record is the same after the calls as before.         *)
(***************************************************************************)
FilteredTwice == pc = "done" /\ call.op = "filter twice"

RecordFilters ==
    {"filter_event_fields", "filter_podcast_fields", "filter_expert_fields",
     "filter_team_member_fields"}

Refiltered ==
    /\ FilteredTwice
    /\ call.args.filter \in RecordFilters
    /\ Returned(ret.first)

DetailOps ==
    {"get_event_details", "get_podcast_details", "get_expert_details",
     "get_team_member_details", "resource_event_by_id", "resource_podcast_by_id",
     "resource_expert_by_id", "resource_team_member_by_id", "resource_company_by_id"}

\* a tool or resource has returned its document to the client
DocumentReturned ==
    /\ pc = "done"
    /\ call.op \in ListToolOps \cup ListResourceOps \cup DetailOps
    /\ Returned(ret)

\* the whitelist of the entity type found under a key of a document
WhitelistUnder(key) ==
    CASE key \in {"events", "event"} -> KeysOf("filter_event_fields")
      [] key \in {"podcasts", "podcast"} -> KeysOf("filter_podcast_fields")
      [] key \in {"experts", "expert"} -> KeysOf("filter_expert_fields")
      [] key \in {"team_members", "team_member"} -> KeysOf("filter_team_member_fields")
      [] key \in {"companies", "company"} -> KeysOf("filter_company_fields")

\* the entity records of a document, each with the whitelist of its type: the
\* records of an envelope's list, the record of a detail document, or the
\* document itself when an event or a podcast is returned bare
WhitelistedRecords(doc) ==
    LET listed == EntityKeys \cap DOMAIN doc.v
        single == {"expert", "team_member", "company"} \cap DOMAIN doc.v
    IN  IF "error" \in DOMAIN doc.v THEN {}
        ELSE IF call.op \in {"get_event_details", "resource_event_by_id"}
        THEN {<<doc, WhitelistUnder("event")>>}
        ELSE IF call.op \in {"get_podcast_details", "resource_podcast_by_id"}
        THEN {<<doc, WhitelistUnder("podcast")>>}
        ELSE IF listed # {}
        THEN {<<r, WhitelistUnder(k)>> : r \in RecordsIn(Entities(doc)), k \in listed}
        ELSE {<<doc.v[k], WhitelistUnder(k)>> : k \in single}

C15_OnlyWhitelistedKeys ==
    DocumentReturned =>
        \A rw \in WhitelistedRecords(ret.val.doc) : DOMAIN rw[1].v \subseteq rw[2]

(***************************************************************************)
(* C16.  For every list tool and list resource the output is the same      *)
(* envelope, with an empty entity list, when upstream is unreachable, when *)
(* it answers a body that is not JSON and when it answers zero records.    *)
(***************************************************************************)
Unreachable == {Failure("ConnectionError"), Failure("Timeout")}

ZeroRecords == {Ok(List(<<>>)), Ok(Dict([data |-> List(<<>>)]))}

NothingFound == Unreachable \cup {InvalidJson} \cup ZeroRecords

C16_EmptyResultsIndistinguishable ==
    (ListHandlerDone /\ response \in NothingFound) =>
        /\ Returned(ret)
        /\ Entities(ret.val.doc) = List(<<>>)
        /\ \A other \in NothingFound : Handle(call.op, call.args, other).ret = ret

\* search_experts answered with a body that is not JSON
C16_Witness ==
    /\ ListHandlerDone
    /\ call.op = "search_experts"
    /\ response = InvalidJson
    /\ Returned(ret)
    /\ ret.val.doc.v["experts"] = List(<<>>)
    /\ Handle(call.op, call.args, Ok(List(<<>>))).ret = ret

(***************************************************************************)
(* C17.  Every tool or resource invocation issues exactly one upstream GET *)
(* and never retries: when the GET fails the invocation returns its empty  *)
(* result (an empty envelope or a not-found document) after that one GET.  *)
(***************************************************************************)
HandlerDone ==
    /\ pc = "done"
    /\ call.op \in ListToolOps \cup ListResourceOps \cup DetailOps

GetFailed == response.outcome \in {"ConnectionError", "Timeout", "HTTPError"}

C17_OneGetNoRetry ==
    HandlerDone =>
        /\ Len(requests) = 1
        /\ GetFailed =>
               /\ Returned(ret)
               /\ IF call.op \in DetailOps THEN "error" \in DOMAIN ret.val.doc.v
                  ELSE Entities(ret.val.doc) = List(<<>>)

\* get_event_details after a GET that timed out
C17_Witness ==
    /\ HandlerDone
    /\ call.op = "get_event_details"
    /\ response.outcome = "Timeout"
    /\ Len(requests) = 1
    /\ Returned(ret)
    /\ "error" \in DOMAIN ret.val.doc.v

(***************************************************************************)
(* C20.  Every prompt takes no parameter, performs no upstream GET and     *)
(* returns the same list of exactly one message with role "user" on every  *)
(* call, whatever the condition of upstream.                               *)
(***************************************************************************)
PromptOps ==
    {"analyze_blockchain_events", "upcoming_events_summary", "compare_event_locations",
     "analyze_podcast_trends", "podcast_recommendations", "compare_podcast_creators",
     "find_expert_for_needs", "analyze_expert_community", "compare_experts",
     "analyze_blockchain_companies", "company_partnership_recommendations",
     "compare_blockchain_companies"}

PromptDone == pc = "done" /\ call.op \in PromptOps

C20_PromptsStatic ==
    PromptDone =>
        /\ DOMAIN call.args = {}
        /\ requests = <<>>
        /\ Returned(ret)
        /\ IsList(ret.val)
        /\ Len(ret.val.v) = 1
        /\ DOMAIN ret.val.v[1].v = {"role", "content"}
        /\ ret.val.v[1].v["role"] = Lit("user")
        /\ IsStr(ret.val.v[1].v["content"])
        /\ \A other \in NothingFound \cup {Ok(List(<<FullEvent>>))} :
              Handle(call.op, call.args, other).ret = ret

\* compare_experts asked for while upstream is unreachable
C20_Witness ==
    /\ PromptDone
    /\ call.op = "compare_experts"
    /\ response.outcome = "ConnectionError"
    /\ requests = <<>>
    /\ Len(ret.val.v) = 1
    /\ ret.val.v[1].v["role"] = Lit("user")

(***************************************************************************)
(* C18.  Concurrent invocations are independent: under every interleaving  *)
(* against an unchanged upstream each invocation returns the result it     *)
(* returns when run alone, and no step of an invocation writes anything    *)
(* another invocation reads: a step changes the frame of one worker only   *)
(* and leaves upstream as it is.                                           *)
(***************************************************************************)
\* what the GET of a call receives when the call runs alone
AloneResponse(c) ==
    LET answer == upstream[EndpointOf(RequestOf(c))]
    IN  IF answer = Silent THEN Failure("Timeout") ELSE answer

\* the result of a call run alone
AloneResult(c) == Handle(c.op, c.args, AloneResponse(c)).ret

ResultsAsAlone ==
    \A w \in Workers :
        frames[w].pc = "done" => frames[w].ret = AloneResult(frames[w].call)

OneFrameWritten ==
    /\ upstream' = upstream
    /\ Cardinality({w \in Workers : frames'[w] # frames[w]}) <= 1

C18_ConcurrentInvocationsIndependent == []ResultsAsAlone /\ [][OneFrameWritten]_vars

\* two different invocations on the same endpoint, overlapping, both returned
C18_Witness ==
    /\ frames[1].pc = "done"
    /\ frames[2].pc = "done"
    /\ frames[1].call.op = "list_events"
    /\ frames[2].call.op = "get_event_details"
    /\ upstream[EVENTS_URL[1]] # Silent
    /\ frames[1].ret = AloneResult(frames[1].call)
    /\ frames[2].ret = AloneResult(frames[2].call)
    /\ frames[1].ret # frames[2].ret

(***************************************************************************)
(* C19.  Every invocation eventually returns.  When upstream never answers *)
(* the GET, sent with the timeout of 10 seconds, gives up and the caller   *)
(* receives the empty result: an empty envelope or a not-found document.   *)
(***************************************************************************)
\* the result of a list handler or of a by-id handler that found nothing
EmptyResult(op, r) ==
    /\ Returned(r)
    /\ IF op \in DetailOps THEN "error" \in DOMAIN r.val.doc.v
       ELSE Entities(r.val.doc) = List(<<>>)

TimedOutEmpty ==
    \A w \in Workers :
        (frames[w].pc = "done" /\ upstream[EndpointOf(frames[w].request)] = Silent) =>
            /\ "timeout" \in DOMAIN frames[w].request
            /\ frames[w].request.timeout = 10
            /\ frames[w].response = Failure("Timeout")
            /\ EmptyResult(frames[w].call.op, frames[w].ret)

C19_EveryInvocationReturns ==
    /\ \A w \in Workers : (frames[w].pc = "sent") ~> (frames[w].pc = "done")
    /\ []TimedOutEmpty

\* list_companies has returned its empty envelope from a silent directory
C19_Witness ==
    /\ frames[1].pc = "done"
    /\ frames[1].call.op = "list_companies"
    /\ upstream[DIRECTORY_URL[1]] = Silent
    /\ frames[1].response = Failure("Timeout")
    /\ EmptyResult("list_companies", frames[1].ret)


(***************************************************************************)
(* C21.  list_team_members and list_companies honour offset as pagination: *)
(* called with offset = k they return the entities that follow the first k *)
(* entities of the listing, so for a listing longer than k the result      *)
(* differs from the result with offset = 0.                                *)
(***************************************************************************)
OffsetOps == {"list_team_members", "list_companies"}

\* the result of the same call with another offset, on the same response
WithOffset(k) == Handle(call.op, [call.args EXCEPT !.offset = k], response).ret

\* the whole listing: the entities of the call made with offset 0
ListingAtZero == Entities(WithOffset(0).val.doc).v

\* a paginating tool was called with a positive limit and an offset inside
\* the listing
OffsetInsideListing ==
    /\ pc = "done"
    /\ call.op \in OffsetOps
    /\ call.args.limit > 0
    /\ call.args.offset > 0
    /\ Returned(ret)
    /\ Len(ListingAtZero) > call.args.offset

C21_OffsetPaginates ==
    OffsetInsideListing =>
        /\ Entities(ret.val.doc).v =
               SubSeq(ListingAtZero, call.args.offset + 1, Len(ListingAtZero))
        /\ ret # WithOffset(0)


(***************************************************************************)
(* C22.  BlockzaClient.get_events returns a value of list type for every   *)
(* combination of its arguments and for every upstream outcome; it never   *)
(* returns None or a value of another type.                                *)
(***************************************************************************)
GetEventsDone == pc = "done" /\ call.op = "BlockzaClient.get_events"

C22_GetEventsReturnsList ==
    GetEventsDone => (Returned(ret) /\ IsList(ret.val))


(***************************************************************************)
(* C23.  For every tool declaring a limit ceiling C and every positive     *)
(* requested limit, the envelope holds at most C entities, even when       *)
(* upstream ignores the limit parameter and returns more records.          *)
(***************************************************************************)
CeilingToolAnswered ==
    /\ pc = "done"
    /\ call.op \in ListToolOps
    /\ call.args.limit > 0
    /\ Returned(ret)

C23_EntitiesWithinCeiling ==
    CeilingToolAnswered => Len(Entities(ret.val.doc).v) <= CeilingOf(call.op)


(***************************************************************************)
(* C24.  get_top_experts returns the first min(limit, 15) experts of the   *)
(* fetched listing sorted in non-increasing order of the key named by      *)
(* sort_by (responseRate, price, otherwise followers), ties kept in        *)
(* upstream order, and never raises for any expert record, one whose sort  *)
(* key is null included.                                                   *)
(***************************************************************************)
\* get_top_experts was answered with expert records, in either shape
TopExpertsOnRecords ==
    /\ pc = "done"
    /\ call.op = "get_top_experts"
    /\ call.args.limit > 0
    /\ response.outcome = "ok"
    /\ EitherShape(response.body)

\* the key the experts are sorted by
SortField ==
    IF call.args.sort_by = Lit("responseRate") THEN "responseRate"
    ELSE IF call.args.sort_by = Lit("price") THEN "price"
    ELSE "followers"

\* the experts returned are the projections of the fetched records, each at
\* the place a stable sort in non-increasing order of the key gives it
FetchedAs(got, raw) ==
    LET key(p) == Get(raw[p].v, SortField, Int_(0)).v
        ahead(q, p) == q # p /\ (key(q) > key(p) \/ (key(q) = key(p) /\ q < p))
        place(p) == 1 + Cardinality({q \in 1..Len(raw) : ahead(q, p)})
    IN  \A p \in 1..Len(raw) :
            place(p) <= Len(got) => Return(got[place(p)]) = filter_expert_fields(raw[p])

C24_TopExpertsSorted ==
    TopExpertsOnRecords =>
        /\ Returned(ret)
        /\ LET got == Entities(ret.val.doc).v
               raw == BodyRecords(response.body)
           IN  /\ Len(got) = Min(Min(call.args.limit, SearchCeiling), Len(raw))
               /\ FetchedAs(got, raw)


(***************************************************************************)
(* C25.  A podcast is identified by _id or id: get_podcast_by_id(x)        *)
(* returns a podcast whenever some podcast of the fetched listing has      *)
(* _id = x or id = x, one that carries both fields with different values   *)
(* and is requested by its id included.  Stated for listings whose every   *)
(* podcast the projection accepts (description absent or a string).        *)
(***************************************************************************)
\* the podcast filter returns for every record of the body
PodcastsProjected ==
    \A i \in 1..Len(BodyRecords(response.body)) :
        Returned(filter_podcast_fields(BodyRecords(response.body)[i]))

\* get_podcast_by_id was answered with a listing that holds the podcast asked for
PodcastListed ==
    /\ pc = "done"
    /\ call.op = "BlockzaClient.get_podcast_by_id"
    /\ response.outcome = "ok"
    /\ EitherShape(response.body)
    /\ PodcastsProjected
    /\ \E i \in 1..Len(BodyRecords(response.body)) :
           \/ Get(BodyRecords(response.body)[i].v, "_id", None) = call.args.podcast_id
           \/ Get(BodyRecords(response.body)[i].v, "id", None) = call.args.podcast_id

C25_PodcastFoundByEitherId ==
    PodcastListed => (Returned(ret) /\ IsDict(ret.val))


(***************************************************************************)
(* C26.  Each get_*_details tool and each by-id resource returns a         *)
(* not-found envelope (an object with an error key reading "<Entity> not   *)
(* found") exactly when the underlying by-id lookup returned None, and     *)
(* otherwise returns the record found; for the lookups that scan a         *)
(* listing, the record found is the first record of the fetched listing,   *)
(* in upstream order, whose _id equals the requested id.                   *)
(***************************************************************************)
\* the entity a detail tool or by-id resource is about
EntityOf(op) ==
    CASE op \in {"get_event_details", "resource_event_by_id"} -> "event"
      [] op \in {"get_podcast_details", "resource_podcast_by_id"} -> "podcast"
      [] op \in {"get_expert_details", "resource_expert_by_id"} -> "expert"
      [] op \in {"get_team_member_details", "resource_team_member_by_id"} -> "member"
      [] op = "resource_company_by_id" -> "company"

\* the lookup the handler delegates to, run on the same response
LookupResult ==
    CASE EntityOf(call.op) = "event" -> get_event_by_id(call.args.event_id, response).ret
      [] EntityOf(call.op) = "podcast" -> get_podcast_by_id(call.args.podcast_id, response).ret
      [] EntityOf(call.op) = "expert" -> get_expert_by_id(call.args.expert_id, response).ret
      [] EntityOf(call.op) = "member" -> get_team_member_by_id(call.args.member_id, response).ret
      [] EntityOf(call.op) = "company" -> get_company_by_id(call.args.company_id, response).ret

RequestedId ==
    CASE EntityOf(call.op) = "event" -> call.args.event_id
      [] EntityOf(call.op) = "podcast" -> call.args.podcast_id
      [] EntityOf(call.op) = "expert" -> call.args.expert_id
      [] EntityOf(call.op) = "member" -> call.args.member_id
      [] EntityOf(call.op) = "company" -> call.args.company_id

NotFoundText ==
    CASE EntityOf(call.op) = "event" -> Lit("Event not found")
      [] EntityOf(call.op) = "podcast" -> Lit("Podcast not found")
      [] EntityOf(call.op) = "expert" -> Lit("Expert not found")
      [] EntityOf(call.op) = "member" -> Lit("Team member not found")
      [] EntityOf(call.op) = "company" -> Lit("Company not found")

\* the document is a not-found envelope
IsNotFound(doc) == IsDict(doc) /\ "error" \in DOMAIN doc.v /\ doc.v["error"] = NotFoundText

\* the record a document that is not an envelope carries
RecordReturned(doc) ==
    CASE EntityOf(call.op) \in {"event", "podcast"} -> doc
      [] EntityOf(call.op) = "expert" -> doc.v["expert"]
      [] EntityOf(call.op) = "member" -> doc.v["team_member"]
      [] EntityOf(call.op) = "company" -> doc.v["company"]

\* the listing a scanning lookup fetches, as a sequence; <<>> when the fetch
\* gave no list
FetchedListing ==
    LET listed == CASE EntityOf(call.op) = "event" ->
                           get_events(None, None, None, None, None, None, FALSE, response).ret
                    [] EntityOf(call.op) = "podcast" ->
                           get_podcasts(None, None, None, None, None, None, response).ret
                    [] EntityOf(call.op) = "member" ->
                           get_team_members(Int_(MemberLookupFetch), None, None, None, None,
                                            response).ret
                    [] EntityOf(call.op) = "company" ->
                           IF response.outcome = "ok" /\ IsList(DataOf(response.body))
                           THEN Return(DataOf(response.body))
                           ELSE Return(List(<<>>))
    IN  IF Returned(listed) THEN listed.val.v ELSE <<>>

\* the first record of the listing with the requested _id
FirstWithId(items) ==
    LET hits == {i \in 1..Len(items) :
                    IsDict(items[i]) /\ Get(items[i].v, "_id", None) = RequestedId}
    IN  items[CHOOSE i \in hits : \A j \in hits : i <= j]

DetailDone == pc = "done" /\ call.op \in DetailOps

C26_NotFoundExactlyOnNone ==
    DetailDone =>
        /\ Returned(ret)
        /\ IsNotFound(ret.val.doc) <=> LookupResult = Return(None)
        /\ ~IsNotFound(ret.val.doc) =>
               /\ Return(RecordReturned(ret.val.doc)) = LookupResult
               /\ EntityOf(call.op) # "expert" =>
                      RecordReturned(ret.val.doc) = FirstWithId(FetchedListing)


(***************************************************************************)
(* C27.  The projected image of a podcast is the url value of the upstream *)
(* image object when image is an object, and None when image is absent or  *)
(* is not an object (string, null, list); the projection never raises for  *)
(* any shape of image: it raises only where the description cannot be cut. *)
(***************************************************************************)
PodcastFiltered == pc = "done" /\ call.op = "filter_podcast_fields"

\* the image the claim asks for
ImageClaimed(podcast) ==
    IF "image" \in DOMAIN podcast.v /\ IsDict(podcast.v["image"])
       /\ "url" \in DOMAIN podcast.v["image"].v
    THEN podcast.v["image"].v["url"]
    ELSE None

C27_ImageUrlOrNone ==
    PodcastFiltered =>
        /\ Returned(ret) => ret.val.v["image"] = ImageClaimed(call.args.podcast)
        /\ Raised(ret) =>
               /\ "description" \in DOMAIN call.args.podcast.v
               /\ ~IsStr(call.args.podcast.v["description"])

\* a podcast whose image is a string, and one whose image is a list, were
\* projected with image None
C27_Witness ==
    /\ PodcastFiltered
    /\ "image" \in DOMAIN call.args.podcast.v
    /\ call.args.podcast.v["image"] \in {Lit("cover.png"),
                                         List(<<Lit("https://img.example/p1")>>)}
    /\ Returned(ret)
    /\ ret.val.v["image"] = None


(***************************************************************************)
(* C28.  get_team_members called with a search term or a company filter    *)
(* returns a list and never propagates an exception, companies whose name  *)
(* is null and team members whose name, title or email is missing or null  *)
(* included.  Stated for directory responses {"data": [...]} whose         *)
(* companies are objects with teamMembers absent or a list of objects.     *)
(***************************************************************************)
\* a company record whose members can be iterated
CompanyWithMembers(c) ==
    /\ IsDict(c)
    /\ "teamMembers" \in DOMAIN c.v => ArrayOfRecords(c.v["teamMembers"])

DirectoryOfCompanies(body) ==
    /\ IsDict(body)
    /\ "data" \in DOMAIN body.v
    /\ IsList(body.v["data"])
    /\ \A i \in 1..Len(body.v["data"].v) : CompanyWithMembers(body.v["data"].v[i])

MembersSearched ==
    /\ pc = "done"
    /\ call.op = "BlockzaClient.get_team_members"
    /\ Truthy(call.args.search) \/ Truthy(call.args.company)
    /\ response.outcome = "ok"
    /\ DirectoryOfCompanies(response.body)

C28_MemberSearchNeverRaises ==
    MembersSearched => (Returned(ret) /\ IsList(ret.val))


(***************************************************************************)
(* C29.  Every by-id lookup (event, podcast, expert, team member, company) *)
(* returns either a record or None and never propagates an exception, for  *)
(* every shape of upstream response body: object, array, scalar, null, or  *)
(* an array whose elements are not objects.                                *)
(***************************************************************************)
LookupAnswered == ByIdDone /\ response.outcome = "ok"

C29_LookupsNeverRaise ==
    LookupAnswered => (Returned(ret) /\ (IsNone(ret.val) \/ IsDict(ret.val)))


(***************************************************************************)
(* C30.  The query sent upstream by get_events, get_podcasts and           *)
(* get_experts contains limit and offset exactly when the argument is not  *)
(* None (so limit = 0 and offset = 0 are sent), contains each text filter  *)
(* exactly when the argument is a non-empty string, contains               *)
(* upcoming = "true" exactly when upcoming is requested, and contains no   *)
(* other parameter.                                                        *)
(***************************************************************************)
QueryOps ==
    {"BlockzaClient.get_events", "BlockzaClient.get_podcasts", "BlockzaClient.get_experts"}

QuerySent == pc = "done" /\ call.op \in QueryOps

\* the parameter the claim asks for under key k: <<sent, value>>
ParamClaimed(k) ==
    IF k \in {"limit", "offset"} THEN <<call.args[k] # None, call.args[k]>>
    ELSE IF k = "upcoming" THEN <<call.args[k], Lit("true")>>
    ELSE <<IsStr(call.args[k]) /\ call.args[k] # Str(<<>>), call.args[k]>>

C30_QueryParameters ==
    QuerySent =>
        /\ Len(requests) = 1
        /\ LET params == requests[1].params
           IN  /\ DOMAIN params \subseteq DOMAIN call.args
               /\ \A k \in DOMAIN call.args :
                      /\ k \in DOMAIN params <=> ParamClaimed(k)[1]
                      /\ k \in DOMAIN params => params[k] = ParamClaimed(k)[2]

\* limit = 0 was sent while the empty search string was not
C30_Witness ==
    /\ QuerySent
    /\ call.args.limit = Int_(0)
    /\ call.args.search = Str(<<>>)
    /\ DOMAIN requests[1].params = {"limit"}
    /\ requests[1].params["limit"] = Int_(0)

=============================================================================
